---- MODULE Spec2Model ----
(***************************************************************************)
(* psd2json: conversion of a decoded layered document into two flat lists  *)
(* of style records (texts, images).  The model follows src/src/converter.ts,*)
(* src/src/errorHandler.ts and src/src/utils.ts.                           *)
(***************************************************************************)
EXTENDS Integers, Sequences, FiniteSets, TLC

VARIABLES
  buffer,        \* psdBuffer argument of the running call
  options,       \* options argument of the running call
  pc,            \* position inside psd2json
  mergedOptions, \* { ...DEFAULT_OPTIONS, ...options }
  file,          \* what readPsd yields for this buffer (fixed at first decode)
  psd,           \* the decoded document of the running call
  allLayers,     \* flattenLayers(psd.children)
  idx,           \* position of the for-of loop in allLayers
  texts,         \* result.texts being built
  images,        \* result.images being built
  console,       \* console.log / console.warn output of the running call
  outcome,       \* how the promise settled
  readPsdCalls,  \* number of readPsd invocations of the running call
  attempted,     \* layers whose conversion function was entered
  prev,          \* summary of the previous call on the same buffer
  fin,           \* argument of a pure function under check
  fout           \* its result

vars == <<buffer, options, pc, mergedOptions, file, psd, allLayers, idx, texts,
          images, console, outcome, readPsdCalls, attempted, prev, fin, fout>>

callVars == <<buffer, options, pc, mergedOptions, file, psd, allLayers, idx,
              texts, images, console, outcome, readPsdCalls, attempted, prev>>

\* ------------------------------------------------------------------ bounds
MaxNodes == 2          \* layers per document tree in psd2json runs
MaxFlattenNodes == 5   \* layers per tree when flattenLayers is checked alone

\* ------------------------------------------------------------- JS values
JUndef == [t |-> "undefined", b |-> FALSE]
JTrue  == [t |-> "boolean", b |-> TRUE]
JFalse == [t |-> "boolean", b |-> FALSE]
JStr   == [t |-> "string", b |-> FALSE]      \* a non-empty string such as 'invalid'
JNum(n) == [t |-> "number", b |-> FALSE, n |-> n]

\* v || 0 for a dimension: undefined and 0 give 0
OrZero(v) == IF v.t = "number" THEN v.n ELSE 0

Truthy(v) == (v.t = "boolean" /\ v.b) \/ v.t = "string"

\* ------------------------------------------------------------ error values
ErrorCodes == {"INVALID_BUFFER", "INVALID_PSD_FORMAT", "PARSING_FAILED",
               "LAYER_CONVERSION_FAILED", "INVALID_DIMENSIONS",
               "UNSUPPORTED_FEATURE", "MEMORY_ERROR"}

\* details is <<>> for undefined, else the one value it holds
NoError == [cls |-> "none", code |-> "", message |-> <<>>, details |-> <<>>]

\* new PsdConversionError(message, code); message text is not modelled
PsdConversionError(code) ==
  [cls |-> "PsdConversionError", code |-> code, message |-> <<>>,
   details |-> <<>>]

\* new PsdConversionError(message, code, details)
PsdConversionErrorWith(message, code, details) ==
  [cls |-> "PsdConversionError", code |-> code, message |-> message,
   details |-> <<details>>]

\* new Error(message): the message is the sequence of phrases it contains
JsError(message) ==
  [cls |-> "Error", code |-> "", message |-> message, details |-> <<>>]

\* a thrown value that is not an Error instance (throw 'x', throw 42)
NonErrorValue == [cls |-> "value", code |-> "", message |-> <<>>, details |-> <<>>]

\* String.prototype.includes on a message
includes(message, phrase) == \E i \in 1..Len(message) : message[i] = phrase

\* context ? `${context}: ` : ''; context is "" for undefined
contextMessage(context) == IF context # "" THEN <<context>> ELSE <<>>

\* faulty variant: the caught value is thrown on as it is
handleConversionErrorRaw(error, context) == error

\* faulty variant: the format phrases are looked for before the memory phrases
handleConversionErrorFormatFirst(error, context) ==
  IF error.cls = "PsdConversionError" THEN error
  ELSE IF error.cls = "Error" THEN
    IF includes(error.message, "Invalid PSD") \/ includes(error.message, "signature")
      THEN PsdConversionErrorWith(
             contextMessage(context) \o <<"Invalid PSD file format">>,
             "INVALID_PSD_FORMAT", error)
    ELSE IF includes(error.message, "out of memory")
              \/ includes(error.message, "Cannot allocate")
      THEN PsdConversionErrorWith(
             contextMessage(context) \o <<"Memory error during conversion">>,
             "MEMORY_ERROR", error)
    ELSE PsdConversionErrorWith(contextMessage(context) \o error.message,
                                "PARSING_FAILED", error)
  ELSE PsdConversionErrorWith(
         contextMessage(context) \o <<"Unknown error occurred">>,
         "PARSING_FAILED", error)

\* the value handleConversionError throws: every path ends in a throw
handleConversionError(error, context) ==
  IF error.cls = "PsdConversionError" THEN error
  ELSE IF error.cls = "Error" THEN
    IF includes(error.message, "out of memory") \/ includes(error.message, "Cannot allocate")
      THEN PsdConversionErrorWith(
             contextMessage(context) \o <<"Memory error during conversion">>,
             "MEMORY_ERROR", error)
    ELSE IF includes(error.message, "Invalid PSD") \/ includes(error.message, "signature")
      THEN PsdConversionErrorWith(
             contextMessage(context) \o <<"Invalid PSD file format">>,
             "INVALID_PSD_FORMAT", error)
    ELSE PsdConversionErrorWith(contextMessage(context) \o error.message,
                                "PARSING_FAILED", error)
  ELSE PsdConversionErrorWith(
         contextMessage(context) \o <<"Unknown error occurred">>,
         "PARSING_FAILED", error)

\* ---------------------------------------------------------------- buffers
PsdSignature == <<56, 66, 80, 83>>     \* 0x38 0x42 0x50 0x53

NullBuffer == [isNull |-> TRUE, byteLength |-> 0, head |-> <<0, 0, 0, 0>>]
MkBuffer(len, head) == [isNull |-> FALSE, byteLength |-> len, head |-> head]

MinPsdBytes == 26

Buffers == {NullBuffer,
            MkBuffer(0, <<0, 0, 0, 0>>),
            MkBuffer(25, PsdSignature),
            MkBuffer(26, <<0, 0, 0, 0>>),
            MkBuffer(26, <<56, 66, 80, 0>>),
            MkBuffer(26, PsdSignature)}

\* faulty variant: the signature loop stops one byte early
validatePsdBufferThreeBytes(buf) ==
  IF buf.isNull \/ buf.byteLength = 0 THEN PsdConversionError("INVALID_BUFFER")
  ELSE IF buf.byteLength < MinPsdBytes THEN PsdConversionError("INVALID_PSD_FORMAT")
  ELSE IF \E i \in 1..3 : buf.head[i] # PsdSignature[i]
    THEN PsdConversionError("INVALID_PSD_FORMAT")
  ELSE NoError

validatePsdBuffer(buf) ==
  IF buf.isNull \/ buf.byteLength = 0 THEN PsdConversionError("INVALID_BUFFER")
  ELSE IF buf.byteLength < MinPsdBytes THEN PsdConversionError("INVALID_PSD_FORMAT")
  ELSE IF \E i \in 1..4 : buf.head[i] # PsdSignature[i]
    THEN PsdConversionError("INVALID_PSD_FORMAT")
  ELSE NoError

\* ---------------------------------------------------------------- options
OptionValues == {JUndef, JTrue, JFalse, JStr}

\* units stands for a key the validator does not know
OptionObjects == [logging : OptionValues, includeHidden : OptionValues,
                  units : {JUndef, JStr}]

\* faulty variant: no option is checked
validateConversionOptionsLax(opts) == NoError

validateConversionOptions(opts) ==
  IF opts.logging.t # "undefined" /\ opts.logging.t # "boolean"
    THEN PsdConversionError("INVALID_BUFFER")
  ELSE IF opts.includeHidden.t # "undefined" /\ opts.includeHidden.t # "boolean"
    THEN PsdConversionError("INVALID_BUFFER")
  ELSE NoError

DEFAULT_OPTIONS == [logging |-> JFalse, includeHidden |-> JFalse]

\* { ...DEFAULT_OPTIONS, ...options }: a key of options overrides the default
MergeOptions(opts) ==
  [logging |-> IF opts.logging.t = "undefined" THEN DEFAULT_OPTIONS.logging
               ELSE opts.logging,
   includeHidden |-> IF opts.includeHidden.t = "undefined"
                     THEN DEFAULT_OPTIONS.includeHidden ELSE opts.includeHidden,
   units |-> opts.units]

\* ----------------------------------------------------------------- layers
\* layer.text: absent, or a text payload with its text string
NoText == [present |-> FALSE, text |-> ""]
TextPayload(str) == [present |-> TRUE, text |-> str]

\* One Layer as the decoder hands it over.  isNull: the entry of the children
\* array is null; malformed: its style data makes the style converter throw;
\* toDataURL: what layer.canvas.toDataURL is when there is a canvas.
Layer(name, hidden, text, canvas, imageData, malformed) ==
  [name |-> name, hidden |-> hidden, text |-> text, canvas |-> canvas,
   imageData |-> imageData, malformed |-> malformed, isNull |-> FALSE,
   children |-> <<>>, toDataURL |-> "ok"]

\* a canvas whose toDataURL is no function ("missing") or throws ("throws")
CanvasHandles == {"ok", "missing", "throws"}
WithCanvas(layer, handle) == [layer EXCEPT !.canvas = TRUE, !.toDataURL = handle]

NullLayer == [Layer("", FALSE, NoText, FALSE, FALSE, FALSE) EXCEPT !.isNull = TRUE]

LayerNames == <<"L1", "L2", "L3", "L4", "L5", "L6">>

\* layer.name || 'Unnamed'
DisplayName(layer) == IF layer.name = "" THEN "Unnamed" ELSE layer.name

\* Parent of every layer, layers numbered level by level: one function per
\* ordered forest.  0 is the document root.
ParentFns(n) ==
  {p \in [1..n -> 0..n] :
     /\ \A i \in 1..n : p[i] < i
     /\ \A i \in 1..n : \A j \in 1..n : i < j => p[i] <= p[j]}

\* the children array of node p: its children in document order
ChildrenOf(p, n, q) == SelectSeq([i \in 1..n |-> i], LAMBDA i : p[i] = q)

\* The decoded document: dimensions, top-level children, and the layer objects
\* (referred to by index) each with its own children array.
Psd(width, height, p, attrs) ==
  LET n == Len(attrs) IN
  [width |-> width, height |-> height, children |-> ChildrenOf(p, n, 0),
   layers |-> [i \in 1..n |-> [attrs[i] EXCEPT !.children = ChildrenOf(p, n, i)]]]

NoPsd == [width |-> JUndef, height |-> JUndef, children |-> <<>>, layers |-> <<>>]

\* ------------------------------------------------------------ classifiers
\* faulty variant: a text payload with an empty string counts as text
isTextLayerAnyText(layer) == layer.text.present

isTextLayer(layer) == layer.text.present /\ layer.text.text # ""

isImageLayer(layer) == (layer.canvas \/ layer.imageData) /\ ~isTextLayer(layer)

\* faulty variants: no filtering, and the option read the wrong way round
shouldIncludeLayerAlways(layer, includeHidden) == TRUE

shouldIncludeLayerInverted(layer, includeHidden) ==
  IF Truthy(includeHidden) /\ layer.hidden THEN FALSE ELSE TRUE

shouldIncludeLayer(layer, includeHidden) ==
  IF ~Truthy(includeHidden) /\ layer.hidden THEN FALSE ELSE TRUE

\* ---------------------------------------------------------------- flatten
\* faulty variant: children listed before their parent
RECURSIVE flattenLayersPostOrder(_, _)
flattenLayersPostOrder(doc, layers) ==
  IF layers = <<>> THEN <<>>
  ELSE LET l == Head(layers)
           kids == doc.layers[l].children
       IN (IF Len(kids) > 0 THEN flattenLayersPostOrder(doc, kids) ELSE <<>>)
          \o <<l>> \o flattenLayersPostOrder(doc, Tail(layers))

\* faulty variant: no descent into a hidden group
RECURSIVE flattenLayersPruneHidden(_, _)
flattenLayersPruneHidden(doc, layers) ==
  IF layers = <<>> THEN <<>>
  ELSE LET l == Head(layers)
           kids == doc.layers[l].children
       IN <<l>>
          \o (IF Len(kids) > 0 /\ ~doc.layers[l].hidden
                THEN flattenLayersPruneHidden(doc, kids) ELSE <<>>)
          \o flattenLayersPruneHidden(doc, Tail(layers))

RECURSIVE flattenLayers(_, _)
flattenLayers(doc, layers) ==
  IF layers = <<>> THEN <<>>
  ELSE LET l == Head(layers)
           kids == doc.layers[l].children
       IN <<l>>
          \o (IF Len(kids) > 0 THEN flattenLayers(doc, kids) ELSE <<>>)
          \o flattenLayers(doc, Tail(layers))

\* layer.children of a null entry: TypeError
flattenThrows(doc) == \E i \in 1..Len(doc.layers) : doc.layers[i].isNull

\* ------------------------------------------------------- style converters
\* What a call produced: a returned value, or a thrown error.
Returned(value) == [threw |-> FALSE, error |-> NoError, value |-> value]
Threw(error) == [threw |-> TRUE, error |-> error, value |-> <<>>]

\* a faulty variant that takes every canvas for a working one
getImageDataUrlUnchecked(layer) ==
  IF layer.canvas THEN "data:image/png" ELSE "undefined"

\* getImageDataUrl: the data URL of the canvas; undefined without a canvas,
\* without a toDataURL function, and when toDataURL throws
getImageDataUrl(layer) ==
  IF layer.canvas /\ layer.toDataURL = "ok" THEN "data:image/png"
  ELSE "undefined"

\* The record carries the index of the layer it was made from.
convertTextLayer(l, layer) ==
  IF layer.malformed THEN Threw(JsError(<<"Cannot use 'in' operator">>))
  ELSE Returned([layer |-> l, value |-> layer.text.text])

convertImageLayer(l, layer) ==
  IF layer.malformed THEN Threw(JsError(<<"Cannot read properties">>))
  ELSE Returned([layer |-> l, value |-> getImageDataUrl(layer)])

\* faulty variant: Array.prototype.unshift
unshift(array, item) == <<item>> \o array

\* Array.prototype.push
push(array, item) == Append(array, item)

Entry(level, msg, name) == [level |-> level, msg |-> msg, name |-> name]

\* console.warn in the catch block of getImageDataUrl
canvasWarning(layer) ==
  IF layer.canvas /\ layer.toDataURL = "throws"
    THEN <<Entry("warn", "Failed to convert canvas to data URL", "")>>
    ELSE <<>>

\* a faulty variant that prints with console.warn
logAsWarning(logging, msg, name) ==
  IF Truthy(logging) THEN <<Entry("warn", msg, name)>> ELSE <<>>

\* log(context, message): prints only when context.logging is set
log(logging, msg, name) == IF Truthy(logging) THEN <<Entry("log", msg, name)>> ELSE <<>>

\* faulty variant: the exception of conversionFn is not caught
safeLayerConversionRethrow(layerName, r) == [r EXCEPT !.warned = <<>>]

\* safeLayerConversion(layerName, conversionFn); r is what conversionFn() did,
\* given with the fields isNull and warned preset to FALSE and <<>>.
safeLayerConversion(layerName, r) ==
  IF r.threw THEN [threw |-> FALSE, error |-> NoError, value |-> <<>>,
                   isNull |-> TRUE,
                   warned |-> <<Entry("warn", "Failed to convert layer", layerName)>>]
  ELSE r

Call(r) == [threw |-> r.threw, error |-> r.error, value |-> r.value,
            isNull |-> FALSE, warned |-> <<>>]

\* ---------------------------------------------------------- decoder (ag-psd)
LayerKinds == {"group", "text", "badText", "image", "badImage"}

TreeLayer(i, hidden, kind) ==
  Layer(LayerNames[i], hidden,
        IF kind \in {"text", "badText"} THEN TextPayload("Hi") ELSE NoText,
        kind \in {"image", "badImage"}, FALSE,
        kind \in {"badText", "badImage"})

GoodWidth == JNum(800)
GoodHeight == JNum(600)

\* documents of at most MaxNodes layers, every tree shape
TreeDocs ==
  UNION {UNION {{Psd(GoodWidth, GoodHeight, p,
                     [i \in 1..n |-> TreeLayer(i, a[i][1], a[i][2])]) :
                   a \in [1..n -> BOOLEAN \X LayerKinds]} :
                p \in ParentFns(n)} :
         n \in 0..MaxNodes}

\* documents of one layer, every combination of its fields
SingleLayerDocs ==
  {Psd(GoodWidth, GoodHeight, <<0>>,
       <<Layer(f[1], f[2], f[3], f[4], f[5], f[6])>>) :
     f \in {"", "L1"} \X BOOLEAN \X {NoText, TextPayload(""), TextPayload("Hi")}
           \X BOOLEAN \X BOOLEAN \X BOOLEAN}
  \cup {Psd(GoodWidth, GoodHeight, <<0>>, <<NullLayer>>)}

Dimensions == {JUndef, JNum(0), JNum(0 - 1), GoodWidth}

\* documents of one text layer, every combination of dimensions
DimensionDocs ==
  {Psd(d[1], d[2], <<0>>, <<TreeLayer(1, FALSE, "text")>>) : d \in Dimensions \X Dimensions}

\* documents whose raster layer has a canvas that cannot be rendered, alone
\* and before a text layer
CanvasDocs ==
  UNION {{Psd(GoodWidth, GoodHeight, <<0>>,
              <<WithCanvas(TreeLayer(1, FALSE, "image"), h)>>),
          Psd(GoodWidth, GoodHeight, <<0, 0>>,
              <<WithCanvas(TreeLayer(1, FALSE, "image"), h),
                TreeLayer(2, FALSE, "text")>>)} :
         h \in CanvasHandles \ {"ok"}}

Documents == TreeDocs \cup SingleLayerDocs \cup DimensionDocs \cup CanvasDocs

DecoderErrors == {JsError(<<"out of memory">>), JsError(<<"Cannot allocate">>),
                  JsError(<<"Invalid PSD">>), JsError(<<"signature">>),
                  JsError(<<"signature", "out of memory">>),
                  JsError(<<"Unexpected end of file">>), NonErrorValue}

\* readPsd(buffer, ...): a document, null, or a thrown value
Unread == [kind |-> "unread", error |-> NoError, psd |-> NoPsd]
DecoderOutcomes ==
  {[kind |-> "null", error |-> NoError, psd |-> NoPsd]}
  \cup {[kind |-> "throw", error |-> e, psd |-> NoPsd] : e \in DecoderErrors}
  \cup {[kind |-> "psd", error |-> NoError, psd |-> d] : d \in Documents}

\* ------------------------------------------------------------------ state
Pending == [state |-> "pending", error |-> NoError, result |-> <<>>]
Rejected(error) == [state |-> "rejected", error |-> error, result |-> <<>>]
Resolved(t, i) == [state |-> "resolved", error |-> NoError,
                   result |-> [texts |-> t, images |-> i]]

NoPrev == [called |-> FALSE, options |-> DEFAULT_OPTIONS, outcome |-> Pending,
           console |-> <<>>]

NoInput == [op |-> "none", psd |-> NoPsd]
NoOutput == [done |-> FALSE, value |-> <<>>]

Idle ==
  /\ mergedOptions = DEFAULT_OPTIONS
  /\ file = Unread
  /\ psd = NoPsd
  /\ allLayers = <<>>
  /\ idx = 0
  /\ texts = <<>>
  /\ images = <<>>
  /\ console = <<>>
  /\ outcome = Pending
  /\ readPsdCalls = 0
  /\ attempted = {}
  /\ prev = NoPrev

Init ==
  /\ buffer \in Buffers
  /\ options \in OptionObjects
  /\ pc = "validate"
  /\ Idle
  /\ fin = NoInput
  /\ fout = NoOutput

\* the catch block of psd2json: handleConversionError(error, 'PSD conversion')
Catch(error) ==
  /\ outcome' = Rejected(handleConversionError(error, "PSD conversion"))
  /\ pc' = "rejected"

\* psd2json, lines 38-41: both validations, then the merge of the options
Validate ==
  /\ pc = "validate"
  /\ LET e1 == validatePsdBuffer(buffer)
         e2 == validateConversionOptions(options)
     IN IF e1 # NoError THEN Catch(e1) /\ UNCHANGED mergedOptions
        ELSE IF e2 # NoError THEN Catch(e2) /\ UNCHANGED mergedOptions
        ELSE /\ mergedOptions' = MergeOptions(options)
             /\ pc' = "decode"
             /\ UNCHANGED outcome
  /\ UNCHANGED <<buffer, options, file, psd, allLayers, idx, texts, images,
                 console, readPsdCalls, attempted, prev, fin, fout>>

\* psd2json, line 57
dimensionsInvalid(width, height) == width = 0 \/ height = 0

\* psd2json, lines 43-71: decode, null check, dimension check, context
ReadPsd ==
  /\ pc = "decode"
  /\ \E out \in (IF file = Unread THEN DecoderOutcomes ELSE {file}) :
       /\ file' = out
       /\ readPsdCalls' = readPsdCalls + 1
       /\ IF out.kind = "throw" THEN Catch(out.error) /\ UNCHANGED <<psd, console>>
          ELSE IF out.kind = "null"
            THEN Catch(PsdConversionError("PARSING_FAILED")) /\ UNCHANGED <<psd, console>>
          ELSE LET width == OrZero(out.psd.width)
                   height == OrZero(out.psd.height)
               IN IF dimensionsInvalid(width, height)
                    THEN Catch(PsdConversionError("INVALID_DIMENSIONS"))
                         /\ UNCHANGED <<psd, console>>
                  ELSE /\ psd' = out.psd
                       /\ console' = console
                            \o log(mergedOptions.logging, "Starting PSD conversion", "")
                            \o log(mergedOptions.logging, "Options", "")
                       /\ pc' = "layers"
                       /\ UNCHANGED outcome
  /\ UNCHANGED <<buffer, options, mergedOptions, allLayers, idx, texts, images,
                 attempted, prev, fin, fout>>

\* processPsdLayers, lines 84-93: the empty document, else the flattening
ProcessPsdLayers ==
  /\ pc = "layers"
  /\ IF Len(psd.children) = 0
       THEN /\ console' = console \o log(mergedOptions.logging, "No layers found", "")
            /\ pc' = "return"
            /\ UNCHANGED <<allLayers, idx, outcome>>
     ELSE IF flattenThrows(psd)
       THEN /\ Catch(JsError(<<"Cannot read properties of null">>))
            /\ UNCHANGED <<allLayers, idx, console>>
     ELSE /\ allLayers' = flattenLayers(psd, psd.children)
          /\ console' = console \o log(mergedOptions.logging, "Found total layers", "")
          /\ idx' = 1
          /\ pc' = "loop"
          /\ UNCHANGED outcome
  /\ UNCHANGED <<buffer, options, mergedOptions, file, psd, texts, images,
                 readPsdCalls, attempted, prev, fin, fout>>

\* processPsdLayers, lines 95-122: one iteration of the for-of loop
LoopStep ==
  /\ pc = "loop"
  /\ idx <= Len(allLayers)
  /\ LET l == allLayers[idx]
         layer == psd.layers[l]
         logging == mergedOptions.logging
         name == DisplayName(layer)
     IN IF ~shouldIncludeLayer(layer, mergedOptions.includeHidden)
          THEN /\ console' = console \o log(logging, "Skipping hidden layer", name)
               /\ idx' = idx + 1
               /\ UNCHANGED <<texts, images, attempted, outcome, pc>>
        ELSE IF isTextLayer(layer)
          THEN LET r == safeLayerConversion(name, Call(convertTextLayer(l, layer)))
                   entered == console \o log(logging, "Converting text layer", name)
               IN /\ attempted' = attempted \cup {l}
                  /\ UNCHANGED images
                  /\ IF r.threw
                       THEN /\ Catch(r.error)
                            /\ console' = entered
                            /\ UNCHANGED <<texts, idx>>
                     ELSE IF r.isNull
                       THEN /\ console' = entered \o r.warned
                            /\ idx' = idx + 1
                            /\ UNCHANGED <<texts, outcome, pc>>
                     ELSE /\ texts' = push(texts, r.value)
                          /\ console' = entered
                               \o log(logging, "Converted text layer", name)
                          /\ idx' = idx + 1
                          /\ UNCHANGED <<outcome, pc>>
        ELSE IF isImageLayer(layer)
          THEN LET r == safeLayerConversion(name, Call(convertImageLayer(l, layer)))
                   entered == console \o log(logging, "Converting image layer", name)
               IN /\ attempted' = attempted \cup {l}
                  /\ UNCHANGED texts
                  /\ IF r.threw
                       THEN /\ Catch(r.error)
                            /\ console' = entered
                            /\ UNCHANGED <<images, idx>>
                     ELSE IF r.isNull
                       THEN /\ console' = entered \o r.warned
                            /\ idx' = idx + 1
                            /\ UNCHANGED <<images, outcome, pc>>
                     ELSE /\ images' = push(images, r.value)
                          /\ console' = entered \o canvasWarning(layer)
                               \o log(logging, "Converted image layer", name)
                          /\ idx' = idx + 1
                          /\ UNCHANGED <<outcome, pc>>
        ELSE /\ console' = console \o log(logging, "Skipping unsupported layer type", name)
             /\ idx' = idx + 1
             /\ UNCHANGED <<texts, images, attempted, outcome, pc>>
  /\ UNCHANGED <<buffer, options, mergedOptions, file, psd, allLayers,
                 readPsdCalls, prev, fin, fout>>

\* the end of the loop: processPsdLayers returns, psd2json lines 75-77
LoopEnd ==
  /\ pc = "loop"
  /\ idx > Len(allLayers)
  /\ pc' = "return"
  /\ UNCHANGED <<buffer, options, mergedOptions, file, psd, allLayers, idx, texts,
                 images, console, outcome, readPsdCalls, attempted, prev, fin, fout>>

Return ==
  /\ pc = "return"
  /\ console' = console \o log(mergedOptions.logging, "Conversion completed", "")
  /\ outcome' = Resolved(texts, images)
  /\ pc' = "resolved"
  /\ UNCHANGED <<buffer, options, mergedOptions, file, psd, allLayers, idx, texts,
                 images, readPsdCalls, attempted, prev, fin, fout>>

Settled == pc \in {"resolved", "rejected"}

Next == Validate \/ ReadPsd \/ ProcessPsdLayers \/ LoopStep \/ LoopEnd \/ Return

Spec == Init /\ [][Next]_vars

\* ------------------------------------------- two calls on the same buffer
\* As in realPsd.test.ts, 'should include hidden layers when requested': the
\* same buffer converted twice, with options that pass validation.
PairOptions == [logging : {JTrue, JFalse}, includeHidden : {JTrue, JFalse},
                units : {JUndef}]

InitPair ==
  /\ buffer = MkBuffer(MinPsdBytes, PsdSignature)
  /\ options \in PairOptions
  /\ pc = "validate"
  /\ Idle
  /\ fin = NoInput
  /\ fout = NoOutput

CallAgain ==
  /\ Settled
  /\ ~prev.called
  /\ prev' = [called |-> TRUE, options |-> mergedOptions, outcome |-> outcome,
              console |-> console]
  /\ options' \in PairOptions
  /\ pc' = "validate"
  /\ mergedOptions' = DEFAULT_OPTIONS
  /\ psd' = NoPsd
  /\ allLayers' = <<>>
  /\ idx' = 0
  /\ texts' = <<>>
  /\ images' = <<>>
  /\ console' = <<>>
  /\ outcome' = Pending
  /\ readPsdCalls' = 0
  /\ attempted' = {}
  /\ UNCHANGED <<buffer, file, fin, fout>>

NextPair == Next \/ CallAgain

SpecPair == InitPair /\ [][NextPair]_vars

\* ---------------------------------------------------- flattenLayers alone
FlattenDocs ==
  UNION {{Psd(GoodWidth, GoodHeight, p, [i \in 1..n |-> TreeLayer(i, FALSE, "group")]) :
            p \in ParentFns(n)} :
         n \in 0..MaxFlattenNodes}

InitFlatten ==
  /\ buffer = NullBuffer
  /\ options = [logging |-> JUndef, includeHidden |-> JUndef, units |-> JUndef]
  /\ pc = "idle"
  /\ Idle
  /\ fin \in {[op |-> "flattenLayers", psd |-> d] : d \in FlattenDocs}
  /\ fout = NoOutput

ApplyFlatten ==
  /\ fin.op = "flattenLayers"
  /\ ~fout.done
  /\ fout' = [done |-> TRUE, value |-> flattenLayers(fin.psd, fin.psd.children)]
  /\ UNCHANGED <<callVars, fin>>

NextFlatten == ApplyFlatten

SpecFlatten == InitFlatten /\ [][NextFlatten]_vars

\* ------------------------------------------------------------ properties
Records == [i \in 1..(Len(texts) + Len(images)) |->
              IF i <= Len(texts) THEN texts[i] ELSE images[i - Len(texts)]]

\* the records in an array that were made from layer l
RecordsOf(array, l) == {i \in 1..Len(array) : array[i].layer = l}

LayerIds == 1..Len(psd.layers)

Included(layer) == ~layer.hidden \/ options.includeHidden = JTrue

\* layer.text && layer.text.text, read off the payload
HasNonEmptyText(layer) == layer.text.present /\ layer.text.text # ""
HasRaster(layer) == layer.canvas \/ layer.imageData
Convertible(layer) == HasNonEmptyText(layer) \/ HasRaster(layer)

Warned(layer) ==
  \E i \in 1..Len(console) :
    console[i] = Entry("warn", "Failed to convert layer", DisplayName(layer))

\* C1: a layer whose conversion throws does not make psd2json reject: once a
\* conversion has been entered the call no longer rejects, and in the resolved
\* call the failing layer has no record, a warning carries its name, and every
\* other included text or image layer has its record.
C1_LayerFailureIsolated ==
  /\ pc = "rejected" => attempted = {}
  /\ pc = "resolved" =>
       \A l \in LayerIds :
         LET layer == psd.layers[l] IN
         (Included(layer) /\ Convertible(layer)) =>
           /\ l \in attempted
           /\ IF layer.malformed
                THEN /\ RecordsOf(texts, l) = {}
                     /\ RecordsOf(images, l) = {}
                     /\ Warned(layer)
              ELSE Cardinality(RecordsOf(texts, l)) + Cardinality(RecordsOf(images, l)) = 1

C1_Witness ==
  /\ pc = "resolved"
  /\ \E l \in LayerIds : \E m \in LayerIds :
       /\ psd.layers[l].malformed /\ l \in attempted /\ Warned(psd.layers[l])
       /\ m # l /\ ~psd.layers[m].malformed
       /\ RecordsOf(texts, m) \cup RecordsOf(images, m) # {}

\* C2: a settled call either rejected with a PsdConversionError whose code is
\* one of ErrorCodes and no result, or resolved with an object holding exactly
\* a texts array and an images array; before that nothing is delivered.
C2_TwoOutcomes ==
  /\ pc = "rejected" =>
       /\ outcome.state = "rejected"
       /\ outcome.error.cls = "PsdConversionError"
       /\ outcome.error.code \in ErrorCodes
       /\ outcome.result = <<>>
  /\ pc = "resolved" =>
       /\ outcome.state = "resolved"
       /\ outcome.error = NoError
       /\ DOMAIN outcome.result = {"texts", "images"}
       /\ outcome.result.texts = texts
       /\ outcome.result.images = images
  /\ ~Settled => outcome = Pending

\* a rejection out of the layer stage: a TypeError on a null entry of the
\* children array, delivered as PARSING_FAILED
C2_Witness ==
  /\ pc = "rejected"
  /\ outcome.error.cls = "PsdConversionError"
  /\ outcome.error.code = "PARSING_FAILED"
  /\ file.kind = "psd"
  /\ flattenThrows(file.psd)

\* C3: when includeHidden is false or omitted no record comes from a hidden
\* layer; when it is true a hidden layer with text or raster payload has the
\* record the same layer would have were it not hidden.
C3_HiddenFilter ==
  /\ options.includeHidden \in {JUndef, JFalse} =>
       \A i \in 1..Len(Records) : ~psd.layers[Records[i].layer].hidden
  /\ (options.includeHidden = JTrue /\ pc = "resolved") =>
       \A l \in LayerIds :
         LET layer == psd.layers[l]
             shown == [layer EXCEPT !.hidden = FALSE]
         IN (layer.hidden /\ ~layer.malformed) =>
              /\ HasNonEmptyText(layer) =>
                   \E i \in 1..Len(texts) : texts[i] = convertTextLayer(l, shown).value
              /\ (~HasNonEmptyText(layer) /\ HasRaster(layer)) =>
                   \E i \in 1..Len(images) : images[i] = convertImageLayer(l, shown).value

\* the option omitted, a hidden text layer dropped next to a visible one kept
C3_Witness ==
  /\ pc = "resolved"
  /\ options.includeHidden = JUndef
  /\ Len(texts) = 1
  /\ \E l \in LayerIds :
       /\ psd.layers[l].hidden /\ HasNonEmptyText(psd.layers[l])
       /\ ~psd.layers[l].malformed /\ RecordsOf(texts, l) = {}

\* C4: of two resolved calls on the same document, the one with
\* includeHidden = true has at least as many text records and at least as
\* many image records as the one with includeHidden = false.
C4_HiddenCountMonotone ==
  (pc = "resolved" /\ prev.called /\ prev.outcome.state = "resolved") =>
    LET before == prev.outcome.result IN
    /\ (mergedOptions.includeHidden = JTrue /\ prev.options.includeHidden = JFalse) =>
         /\ Len(texts) >= Len(before.texts)
         /\ Len(images) >= Len(before.images)
    /\ (mergedOptions.includeHidden = JFalse /\ prev.options.includeHidden = JTrue) =>
         /\ Len(before.texts) >= Len(texts)
         /\ Len(before.images) >= Len(images)

\* the second call, with hidden layers included, returns strictly more texts
C4_Witness ==
  /\ pc = "resolved"
  /\ prev.called
  /\ prev.outcome.state = "resolved"
  /\ prev.options.includeHidden = JFalse
  /\ mergedOptions.includeHidden = JTrue
  /\ Len(texts) > Len(prev.outcome.result.texts)

\* the groups above layer l
RECURSIVE Ancestors(_, _)
Ancestors(doc, l) ==
  LET parents == {g \in 1..Len(doc.layers) :
                    \E k \in 1..Len(doc.layers[g].children) : doc.layers[g].children[k] = l}
  IN parents \cup UNION {Ancestors(doc, g) : g \in parents}

HasHiddenAncestor(doc, l) == \E g \in Ancestors(doc, l) : doc.layers[g].hidden

\* C5: with includeHidden false or omitted, a layer that is not itself hidden
\* and lies under a hidden group still has its record in the resolved call
\* (unless its own conversion failed).
C5_NoHiddenInheritance ==
  (pc = "resolved" /\ options.includeHidden \in {JUndef, JFalse}) =>
    \A l \in LayerIds :
      LET layer == psd.layers[l] IN
      (~layer.hidden /\ HasHiddenAncestor(psd, l) /\ ~layer.malformed) =>
        /\ HasNonEmptyText(layer) => Cardinality(RecordsOf(texts, l)) = 1
        /\ (~HasNonEmptyText(layer) /\ HasRaster(layer)) =>
             Cardinality(RecordsOf(images, l)) = 1

C5_Witness ==
  /\ pc = "resolved"
  /\ options.includeHidden = JFalse
  /\ \E l \in LayerIds :
       /\ ~psd.layers[l].hidden
       /\ HasHiddenAncestor(psd, l)
       /\ RecordsOf(texts, l) # {}

\* position of layer l in a flattened list
Pos(list, l) == CHOOSE i \in 1..Len(list) : list[i] = l

RECURSIVE Descendants(_, _)
Descendants(doc, l) ==
  LET kids == {doc.layers[l].children[k] : k \in 1..Len(doc.layers[l].children)}
  IN kids \cup UNION {Descendants(doc, c) : c \in kids}

\* every children array of the document: the root's and each layer's
ChildArrays(doc) == {doc.children} \cup {doc.layers[l].children : l \in 1..Len(doc.layers)}

\* C6: flattenLayers lists every layer of the tree exactly once, a parent
\* before each of its children, the members of a children array in the order
\* of the array, and all descendants of a layer before its next sibling.
C6_FlattenPreOrder ==
  fout.done =>
    LET doc == fin.psd
        list == fout.value
        n == Len(doc.layers)
    IN /\ Len(list) = n
       /\ \A l \in 1..n : Cardinality({i \in 1..Len(list) : list[i] = l}) = 1
       /\ \A l \in 1..n : \A d \in Descendants(doc, l) : Pos(list, l) < Pos(list, d)
       /\ \A arr \in ChildArrays(doc) : \A i \in 1..Len(arr) : \A j \in 1..Len(arr) :
            i < j =>
              /\ Pos(list, arr[i]) < Pos(list, arr[j])
              /\ \A d \in Descendants(doc, arr[i]) : Pos(list, d) < Pos(list, arr[j])

\* a tree whose pre-order differs from its level order
C6_Witness ==
  /\ fout.done
  /\ Len(fout.value) >= 4
  /\ fout.value[2] = 3
  /\ fout.value[Len(fout.value)] = 2

\* the layers the loop has dealt with so far, in traversal order
Traversed == SubSeq(allLayers, 1, IF pc = "loop" THEN idx - 1 ELSE Len(allLayers))

\* C7: at every point of the loop and in the resolved result, texts is the list
\* of records of the included, successfully converted text layers among the
\* layers traversed so far, in traversal order, and images likewise for the
\* image layers.
C7_TraversalOrder ==
  pc \in {"loop", "return", "resolved"} =>
    LET textIds == SelectSeq(Traversed, LAMBDA l :
                     /\ Included(psd.layers[l])
                     /\ HasNonEmptyText(psd.layers[l])
                     /\ ~psd.layers[l].malformed)
        imageIds == SelectSeq(Traversed, LAMBDA l :
                      /\ Included(psd.layers[l])
                      /\ ~HasNonEmptyText(psd.layers[l])
                      /\ HasRaster(psd.layers[l])
                      /\ ~psd.layers[l].malformed)
    IN /\ texts = [k \in 1..Len(textIds) |->
                     convertTextLayer(textIds[k], psd.layers[textIds[k]]).value]
       /\ images = [k \in 1..Len(imageIds) |->
                      convertImageLayer(imageIds[k], psd.layers[imageIds[k]]).value]
       /\ \A i \in 1..Len(texts) : \A j \in 1..Len(texts) :
            i < j => Pos(allLayers, texts[i].layer) < Pos(allLayers, texts[j].layer)
       /\ \A i \in 1..Len(images) : \A j \in 1..Len(images) :
            i < j => Pos(allLayers, images[i].layer) < Pos(allLayers, images[j].layer)

\* two text records of a group and its child, returned in that order
C7_Witness ==
  /\ pc = "resolved"
  /\ Len(outcome.result.texts) = 2
  /\ outcome.result.texts[2].layer \in Descendants(psd, outcome.result.texts[1].layer)

\* C8: a layer is never both a text layer and an image layer; in the resolved
\* call an included layer (whose conversion does not throw) has one text record
\* and no image record if its text payload has a non-empty string, else one
\* image record and no text record if it has a canvas or imageData, else no
\* record; the unsupported layer is not handed to a converter and draws no
\* warning.
C8_Classification ==
  /\ \A l \in LayerIds : ~(isTextLayer(psd.layers[l]) /\ isImageLayer(psd.layers[l]))
  /\ pc = "resolved" =>
       \A l \in LayerIds :
         LET layer == psd.layers[l]
             nt == Cardinality(RecordsOf(texts, l))
             ni == Cardinality(RecordsOf(images, l))
         IN (Included(layer) /\ ~layer.malformed) =>
              IF HasNonEmptyText(layer) THEN nt = 1 /\ ni = 0
              ELSE IF HasRaster(layer) THEN nt = 0 /\ ni = 1
              ELSE nt = 0 /\ ni = 0 /\ l \notin attempted /\ ~Warned(layer)

\* a layer with text and a canvas: one text record, no image record
C8_Witness ==
  /\ pc = "resolved"
  /\ \E l \in LayerIds :
       /\ HasNonEmptyText(psd.layers[l])
       /\ psd.layers[l].canvas
       /\ Cardinality(RecordsOf(texts, l)) = 1
       /\ images = <<>>

WrongTyped(v) == v.t # "undefined" /\ v.t # "boolean"

\* C9 as claimed: options with an unrecognized key, or with a logging or
\* includeHidden that is not a boolean, are rejected before the decoder runs.
C9_UnknownKeyRejected ==
  (pc # "validate" /\ (options.units # JUndef \/ WrongTyped(options.logging)
                         \/ WrongTyped(options.includeHidden))) =>
    /\ pc = "rejected"
    /\ outcome.error.cls = "PsdConversionError"
    /\ readPsdCalls = 0
    /\ attempted = {}

\* C9 as amended: options whose logging or includeHidden is given and is not a
\* boolean are rejected with a PsdConversionError before the decoder is
\* invoked and before any layer is processed.
C9_WrongTypeRejected ==
  (pc # "validate" /\ (WrongTyped(options.logging) \/ WrongTyped(options.includeHidden))) =>
    /\ pc = "rejected"
    /\ outcome.state = "rejected"
    /\ outcome.error.cls = "PsdConversionError"
    /\ readPsdCalls = 0
    /\ file = Unread
    /\ psd = NoPsd
    /\ attempted = {}
    /\ texts = <<>> /\ images = <<>>

\* a well-formed buffer with includeHidden: 'invalid'
C9_Witness ==
  /\ pc = "rejected"
  /\ validatePsdBuffer(buffer) = NoError
  /\ options.includeHidden = JStr
  /\ options.logging = JTrue
  /\ outcome.error.cls = "PsdConversionError"
  /\ readPsdCalls = 0

\* C10 as claimed: a decoded document with a width or height that is zero or
\* negative is rejected with INVALID_DIMENSIONS, a null document with
\* PARSING_FAILED, and in both cases no layer is converted.
C10_BadDimensionsRejected ==
  /\ (readPsdCalls > 0 /\ file.kind = "psd"
        /\ (OrZero(file.psd.width) <= 0 \/ OrZero(file.psd.height) <= 0)) =>
       /\ pc = "rejected"
       /\ outcome.error = PsdConversionError("INVALID_DIMENSIONS")
       /\ attempted = {}
  /\ (readPsdCalls > 0 /\ file.kind = "null") =>
       /\ pc = "rejected"
       /\ outcome.error = PsdConversionError("PARSING_FAILED")
       /\ attempted = {}

\* ------------------------------------------------- validatePsdBuffer alone
\* the values a byte of the header takes: the signature's bytes and a zero
HeaderBytes == {0, 56, 66, 80, 83}

\* byte lengths on both sides of the empty check and of the size check
BufferLengths == {0, 1, 3, 4, 25, 26, 27}

\* the first bytes of a buffer of len bytes (at most four are looked at)
HeadOf(len, bytes) == SubSeq(bytes, 1, IF len < 4 THEN len ELSE 4)

BufferInputs ==
  {NullBuffer} \cup
  {MkBuffer(len, HeadOf(len, bytes)) :
     len \in BufferLengths, bytes \in [1..4 -> HeaderBytes]}

InitBuffer ==
  /\ buffer = NullBuffer
  /\ options = [logging |-> JUndef, includeHidden |-> JUndef, units |-> JUndef]
  /\ pc = "idle"
  /\ Idle
  /\ fin \in {[op |-> "validatePsdBuffer", buffer |-> b] : b \in BufferInputs}
  /\ fout = NoOutput

ApplyValidatePsdBuffer ==
  /\ fin.op = "validatePsdBuffer"
  /\ ~fout.done
  /\ fout' = [done |-> TRUE, value |-> validatePsdBuffer(fin.buffer)]
  /\ UNCHANGED <<callVars, fin>>

NextBuffer == ApplyValidatePsdBuffer

SpecBuffer == InitBuffer /\ [][NextBuffer]_vars

\* C11: validatePsdBuffer throws INVALID_BUFFER for a null or zero-length
\* buffer, INVALID_PSD_FORMAT for a non-empty buffer that is shorter than 26
\* bytes or whose first four bytes are not 0x38 0x42 0x50 0x53, and returns
\* without throwing for every buffer of at least 26 bytes with that signature.
C11_BufferValidation ==
  (fin.op = "validatePsdBuffer" /\ fout.done) =>
    LET b == fin.buffer
        empty == b.isNull \/ b.byteLength = 0
        signed == Len(b.head) = 4 /\ b.head = <<56, 66, 80, 83>>
    IN /\ empty => fout.value = PsdConversionError("INVALID_BUFFER")
       /\ (~empty /\ (b.byteLength < 26 \/ ~signed)) =>
            fout.value = PsdConversionError("INVALID_PSD_FORMAT")
       /\ (~empty /\ b.byteLength >= 26 /\ signed) => fout.value = NoError

\* a 27-byte buffer whose fourth byte alone is wrong has been rejected
C11_Witness ==
  /\ fin.op = "validatePsdBuffer"
  /\ fout.done
  /\ fin.buffer.byteLength = 27
  /\ fin.buffer.head = <<56, 66, 80, 0>>
  /\ fout.value = PsdConversionError("INVALID_PSD_FORMAT")

\* ------------------------------------------------------- style record values
\* A number of a style computation is kept in hundredths: n stands for n/100.
\* A string is a fixed word (s), or the decimal text of n/100 followed by the
\* suffix s, printed with d decimals (d = -1: as many as the number has).
SUndef == [t |-> "undefined", n |-> 0, d |-> 0 - 1, s |-> ""]
SNum(n) == [t |-> "number", n |-> n, d |-> 0 - 1, s |-> ""]
SStr(s) == [t |-> "string", n |-> 0, d |-> 0 - 1, s |-> s]
SNumStr(n, d, s) == [t |-> "string", n |-> n, d |-> d, s |-> s]
\* a value that is no string and no number (a function or an object)
SObject(s) == [t |-> "object", n |-> 0, d |-> 0 - 1, s |-> s]

\* JavaScript truthiness of such a value
STruthy(v) ==
  \/ v.t = "object"
  \/ v.t = "number" /\ v.n # 0
  \/ v.t = "string" /\ v # SStr("")

\* Math.round on hundredths: to the nearest integer, a half goes up
MathRound(n) == ((n + 50) \div 100) * 100

\* the quotient a / b to the nearest integer, a half away from zero
RoundDiv(a, b) ==
  LET num == IF b < 0 THEN 0 - a ELSE a
      den == IF b < 0 THEN 0 - b ELSE b
  IN IF num >= 0 THEN (2 * num + den) \div (2 * den)
     ELSE 0 - ((2 * (0 - num) + den) \div (2 * den))

\* ------------------------------------------------------------- utils.ts
\* faulty variant: the percentage is cut off instead of rounded
convertPxToPercentTruncated(value, reference, context) ==
  IF context.options.units = SStr("percent")
    THEN SNumStr((value * 10000) \div reference, 2, "%")
    ELSE SNum(value)

\* ((value / reference) * 100).toFixed(2) + '%' in percent mode, else value
convertPxToPercent(value, reference, context) ==
  IF context.options.units = SStr("percent")
    THEN SNumStr(RoundDiv(value * 10000, reference), 2, "%")
    ELSE SNum(value)

convertDimensionValue(value, isWidth, context) ==
  LET reference == IF isWidth THEN context.psdDimensions.width
                   ELSE context.psdDimensions.height
  IN convertPxToPercent(value, reference, context)

\* faulty variant: the coordinates are cut off instead of rounded
normalizeLayerBoundsFloor(bounds) ==
  [left |-> (bounds.left \div 100) * 100, top |-> (bounds.top \div 100) * 100,
   right |-> (bounds.right \div 100) * 100,
   bottom |-> (bounds.bottom \div 100) * 100]

normalizeLayerBounds(bounds) ==
  [left |-> MathRound(bounds.left), top |-> MathRound(bounds.top),
   right |-> MathRound(bounds.right), bottom |-> MathRound(bounds.bottom)]

\* faulty variant: the operands of the subtractions are swapped
calculateLayerDimensionsSwapped(bounds) ==
  [width |-> bounds.left - bounds.right, height |-> bounds.top - bounds.bottom]

calculateLayerDimensions(bounds) ==
  [width |-> bounds.right - bounds.left, height |-> bounds.bottom - bounds.top]

\* the own keys of blendModeMap; each maps to itself
BlendModeNames ==
  {"normal", "multiply", "screen", "overlay", "soft-light", "hard-light",
   "color-dodge", "color-burn", "darken", "lighten", "difference",
   "exclusion", "hue", "saturation", "color", "luminosity"}

\* blendModeMap is an object literal: a lookup that misses its own keys goes
\* on to Object.prototype, whose all-lower-case keys are these two
InheritedKeys == {"constructor", "__proto__"}

\* String.prototype.toLowerCase on the blend mode strings of BlendModeInputs
toLowerCase(s) ==
  CASE s = "MULTIPLY" -> "multiply"
    [] s = "Soft-Light" -> "soft-light"
    [] s = "Constructor" -> "constructor"
    [] s = "toString" -> "tostring"
    [] OTHER -> s

\* blendModeMap[key]
blendModeMap(key) ==
  IF key \in BlendModeNames THEN SStr(key)
  ELSE IF key \in InheritedKeys THEN SObject(key)
  ELSE SUndef

convertBlendMode(blendMode) ==
  IF STruthy(blendMode) THEN blendModeMap(toLowerCase(blendMode.s)) ELSE SUndef

\* ------------------------------------------------- styleConverter.ts: base
getLayerBounds(layer) ==
  LET orZero(v) == IF v.t = "number" THEN v.n ELSE 0
  IN [left |-> orZero(layer.left), top |-> orZero(layer.top),
      right |-> orZero(layer.right), bottom |-> orZero(layer.bottom)]

\* position and the four geometry values of a record
geometryStyles(layer, context) ==
  LET normalizedBounds == normalizeLayerBounds(getLayerBounds(layer))
      dimensions == calculateLayerDimensions(normalizedBounds)
  IN ("position" :> SStr("absolute"))
     @@ ("left" :> convertDimensionValue(normalizedBounds.left, TRUE, context))
     @@ ("top" :> convertDimensionValue(normalizedBounds.top, FALSE, context))
     @@ ("width" :> convertDimensionValue(dimensions.width, TRUE, context))
     @@ ("height" :> convertDimensionValue(dimensions.height, FALSE, context))

\* faulty variant: full opacity is written too
opacityStylesAlways(layer) ==
  IF layer.opacity # SUndef THEN ("opacity" :> layer.opacity) ELSE <<>>

opacityStyles(layer) ==
  IF layer.opacity # SUndef /\ layer.opacity.n < 100
    THEN ("opacity" :> layer.opacity) ELSE <<>>

blendModeStyles(layer) ==
  IF STruthy(layer.blendMode)
    THEN LET cssBlendMode == convertBlendMode(layer.blendMode)
         IN IF STruthy(cssBlendMode) THEN ("mixBlendMode" :> cssBlendMode)
            ELSE <<>>
    ELSE <<>>

\* the styles both converters build before text styles and effects are added
baseStyles(layer, context) ==
  geometryStyles(layer, context) @@ opacityStyles(layer) @@ blendModeStyles(layer)

\* { ...styles, value }: the record of a text layer that has no text style
\* and no effects
TextLayerRecord(layer, context) ==
  ("value" :> SStr(layer.text.text)) @@ baseStyles(layer, context)

\* the record of an image layer that has no effects
ImageLayerRecord(layer, context) ==
  LET url == getImageDataUrl(layer)
  IN ("value" :> (IF url = "undefined" THEN SUndef ELSE SStr(url)))
       @@ baseStyles(layer, context)

\* ------------------------------------------- the layer converters alone
\* a coordinate is absent or a number; some are negative, some not whole
Lefts == {SUndef, SNum(0 - 1050), SNum(40), SNum(10000), SNum(40000)}
Rights == {SUndef, SNum(50), SNum(160), SNum(50000), SNum(60000)}
Tops == {SUndef, SNum(0 - 750), SNum(5000), SNum(30000)}
Bottoms == {SUndef, SNum(2000), SNum(12000), SNum(45000)}

Opacities == {SUndef, SNum(0), SNum(50), SNum(100), SNum(150)}

BlendModeInputs ==
  {SUndef, SStr("")} \cup
  {SStr(s) : s \in BlendModeNames \cup
     {"MULTIPLY", "Soft-Light", "soft light", "pass through", "unknown-mode",
      "constructor", "Constructor", "__proto__", "toString"}}

StyleLayer(text, canvas, left, top, right, bottom, opacity, blendMode) ==
  [left |-> left, top |-> top, right |-> right, bottom |-> bottom,
   opacity |-> opacity, blendMode |-> blendMode]
    @@ Layer("L1", FALSE, text, canvas, FALSE, FALSE)

\* the context psd2json builds: the merged options and the document's size
Contexts ==
  [options : [units : {SUndef, SStr("px"), SStr("percent")}],
   psdDimensions : {[width |-> 192000, height |-> 108000],
                    [width |-> 80000, height |-> 60000]}]

InitStyle ==
  /\ buffer = NullBuffer
  /\ options = [logging |-> JUndef, includeHidden |-> JUndef, units |-> JUndef]
  /\ pc = "idle"
  /\ Idle
  /\ \E l \in Lefts, t \in Tops, r \in Rights, b \in Bottoms,
        o \in Opacities, m \in BlendModeInputs, c \in Contexts :
       \/ fin = [op |-> "convertTextLayer", context |-> c,
                 layer |-> StyleLayer(TextPayload("Hello"), FALSE,
                                      l, t, r, b, o, m)]
       \/ fin = [op |-> "convertImageLayer", context |-> c,
                 layer |-> StyleLayer(NoText, TRUE, l, t, r, b, o, m)]
  /\ fout = NoOutput

ApplyConvertTextLayer ==
  /\ fin.op = "convertTextLayer"
  /\ ~fout.done
  /\ fout' = [done |-> TRUE, value |-> TextLayerRecord(fin.layer, fin.context)]
  /\ UNCHANGED <<callVars, fin>>

ApplyConvertImageLayer ==
  /\ fin.op = "convertImageLayer"
  /\ ~fout.done
  /\ fout' = [done |-> TRUE, value |-> ImageLayerRecord(fin.layer, fin.context)]
  /\ UNCHANGED <<callVars, fin>>

NextStyle == ApplyConvertTextLayer \/ ApplyConvertImageLayer

SpecStyle == InitStyle /\ [][NextStyle]_vars

\* a record of one of the two layer converters has been returned
StyleDone == fin.op \in {"convertTextLayer", "convertImageLayer"} /\ fout.done

\* layer.left || 0 and its three companions, in hundredths
Rect == getLayerBounds(fin.layer)

PixelMode == fin.context.options.units # SStr("percent")

\* the whole number nearest to n/100, in hundredths (a half goes up)
Nearest(n) ==
  CHOOSE v \in {(n \div 100) * 100, (n \div 100) * 100 + 100} :
    v - 50 <= n /\ n < v + 50

GeometryKeys == {"position", "left", "top", "width", "height"}

C14_OpacityOnlyBelowOne ==
  StyleDone =>
    LET opacity == fin.layer.opacity
        below == opacity.t = "number" /\ opacity.n < 100
    IN /\ ("opacity" \in DOMAIN fout.value) <=> below
       /\ below => fout.value["opacity"] = opacity

\* a layer at opacity 0.5 got the property, and one at opacity 0 would too
C14_Witness ==
  /\ StyleDone
  /\ fin.op = "convertImageLayer"
  /\ fin.layer.opacity = SNum(50)
  /\ "opacity" \in DOMAIN fout.value
  /\ fout.value["opacity"] = SNum(50)

\* the sixteen names the claim lists
AllowListed ==
  {"normal", "multiply", "screen", "overlay", "soft-light", "hard-light",
   "color-dodge", "color-burn", "darken", "lighten", "difference",
   "exclusion", "hue", "saturation", "color", "luminosity"}

\* C15 as claimed: a record carries mixBlendMode if and only if the layer's
\* blend mode, lower-cased, is one of the sixteen allow-listed names, and the
\* value is then that name; for every other string and for an absent blend
\* mode convertBlendMode returns undefined and the property is omitted.
C15_BlendModeAllowList ==
  StyleDone =>
    LET blendMode == fin.layer.blendMode
        listed == blendMode.t = "string"
                    /\ toLowerCase(blendMode.s) \in AllowListed
    IN /\ ("mixBlendMode" \in DOMAIN fout.value) <=> listed
       /\ listed => fout.value["mixBlendMode"] = SStr(toLowerCase(blendMode.s))
       /\ ~listed => convertBlendMode(blendMode) = SUndef

\* C17 as claimed: with default options the left, top, width and height of
\* every returned record are strings made of the pixel number and 'px'.
C17_PixelStrings ==
  (StyleDone /\ fin.context.options.units = SUndef) =>
    /\ fout.value["left"] = SNumStr(Nearest(Rect.left), 0 - 1, "px")
    /\ fout.value["top"] = SNumStr(Nearest(Rect.top), 0 - 1, "px")
    /\ fout.value["width"] =
         SNumStr(Nearest(Rect.right) - Nearest(Rect.left), 0 - 1, "px")
    /\ fout.value["height"] =
         SNumStr(Nearest(Rect.bottom) - Nearest(Rect.top), 0 - 1, "px")

\* v is the text of 100 * value / reference with two decimals and a '%'
IsPercentOf(v, value, reference) ==
  LET off == v.n * reference - value * 10000
      dist == IF off < 0 THEN 0 - off ELSE off
  IN v.t = "string" /\ v.d = 2 /\ v.s = "%" /\ 2 * dist <= reference

\* the record the same converter returns for the same layer with units 'px'
PixelRecord ==
  LET context == [fin.context EXCEPT !.options.units = SStr("px")]
  IN IF fin.op = "convertTextLayer" THEN TextLayerRecord(fin.layer, context)
     ELSE ImageLayerRecord(fin.layer, context)

RECURSIVE GCD(_, _)
GCD(a, b) == IF b = 0 THEN a ELSE GCD(b, a % b)

Q(n, d) ==
  LET sn == IF d < 0 THEN 0 - n ELSE n
      sd == IF d < 0 THEN 0 - d ELSE d
      g == GCD(IF sn < 0 THEN 0 - sn ELSE sn, sd)
  IN [n |-> sn \div g, d |-> sd \div g]

QInt(i) == [n |-> i, d |-> 1]
QAdd(x, y) == Q(x.n * y.d + y.n * x.d, x.d * y.d)
QSub(x, y) == Q(x.n * y.d - y.n * x.d, x.d * y.d)
QMul(x, y) == Q(x.n * y.n, x.d * y.d)
\* x / y for y # 0
QDiv(x, y) == Q(x.n * y.d, x.d * y.n)
QLt(x, y) == x.n * y.d < y.n * x.d
QLe(x, y) == x.n * y.d <= y.n * x.d
QMin(x, y) == IF QLt(y, x) THEN y ELSE x
QMax(x, y) == IF QLt(x, y) THEN y ELSE x
QAbs(x) == IF x.n < 0 THEN [n |-> 0 - x.n, d |-> x.d] ELSE x

\* Math.round: the nearest integer, a half goes up
QRound(x) == (2 * x.n + x.d) \div (2 * x.d)

\* x % 2 as JavaScript computes it: the sign follows x
QMod2(x) ==
  LET a == QAbs(x)
      r == QSub(a, QInt(2 * (a.n \div (2 * a.d))))
  IN IF x.n < 0 THEN [n |-> 0 - r.n, d |-> r.d] ELSE r

\* x.toFixed(2), in hundredths
QToFixed2(x) == RoundDiv(x.n * 100, x.d)

\* ------------------------------------------------------- colour strings
HexDigits ==
  <<"0", "1", "2", "3", "4", "5", "6", "7", "8", "9", "a", "b", "c", "d",
    "e", "f">>

\* Number.prototype.toString(16) of an integer, one character per element
RECURSIVE toString16(_)
toString16(v) ==
  IF v < 0 THEN <<"-">> \o toString16(0 - v)
  ELSE IF v < 16 THEN <<HexDigits[v + 1]>>
  ELSE toString16(v \div 16) \o <<HexDigits[(v % 16) + 1]>>

\* '#' followed by the characters of digits
HexString(digits) == [form |-> "hex", digits |-> digits, rgb |-> <<>>, a |-> 0]

\* 'rgba(R, G, B, a)' with a printed with two decimals (a in hundredths)
RgbaString(r, g, b, a) ==
  [form |-> "rgba", digits |-> <<>>, rgb |-> <<r, g, b>>, a |-> a]

NoColorString == [form |-> "undefined", digits |-> <<>>, rgb |-> <<>>, a |-> 0]

\* an optional argument
Absent == [present |-> FALSE, v |-> QInt(0)]
Given(x) == [present |-> TRUE, v |-> x]

\* toHex inside rgbaToHex
toHex(n) ==
  LET hex == toString16(QRound(QMul(n, QInt(255))))
  IN IF Len(hex) = 1 THEN <<"0">> \o hex ELSE hex

rgbaToHex(r, g, b, a) ==
  IF a.present /\ QLt(a.v, QInt(1))
    THEN RgbaString(QRound(QMul(r, QInt(255))), QRound(QMul(g, QInt(255))),
                    QRound(QMul(b, QInt(255))), QToFixed2(a.v))
    ELSE HexString(toHex(r) \o toHex(g) \o toHex(b))

\* ------------------------------------------- styleConverter.ts: colours
\* A colour is a record of its channels; 'k' in color is "k" \in DOMAIN color.
Has(color, keys) == keys \subseteq DOMAIN color

hsbToRgb(h, s, b) ==
  LET c == QMul(b, s)
      x == QMul(c, QSub(QInt(1),
                        QAbs(QSub(QMod2(QDiv(h, QInt(60))), QInt(1)))))
      m == QSub(b, c)
      zero == QInt(0)
      in(lo, hi) == QLe(QInt(lo), h) /\ QLt(h, QInt(hi))
      rgb == IF in(0, 60) THEN <<c, x, zero>>
             ELSE IF in(60, 120) THEN <<x, c, zero>>
             ELSE IF in(120, 180) THEN <<zero, c, x>>
             ELSE IF in(180, 240) THEN <<zero, x, c>>
             ELSE IF in(240, 300) THEN <<x, zero, c>>
             ELSE <<c, zero, x>>
  IN [r |-> QAdd(rgb[1], m), g |-> QAdd(rgb[2], m), b |-> QAdd(rgb[3], m)]

cmykToRgb(c, m, y, k) ==
  LET one == QInt(1)
      ch(v) == QSub(one, QMin(one, QAdd(QMul(v, QSub(one, k)), k)))
  IN [r |-> ch(c), g |-> ch(m), b |-> ch(y)]

\* The r, g, b of labToRgb before the final clamp, to four decimals, for the
\* LAB colours of LabColors: the XYZ and gamma arithmetic uses Math.pow.
labGamma(l, a, b) ==
  CASE <<l, a, b>> = <<0, 0, 0>> -> <<Q(0, 1), Q(0, 1), Q(0, 1)>>
    [] <<l, a, b>> = <<50, 0, 0>> ->
         <<Q(4663, 10000), Q(4663, 10000), Q(4663, 10000)>>
    [] <<l, a, b>> = <<100, 0, 0>> ->
         <<Q(10000, 10000), Q(10000, 10000), Q(9999, 10000)>>
    [] <<l, a, b>> = <<50, 80, 70>> ->
         <<Q(9567, 10000), Q(0 - 1390, 10000), Q(0 - 644, 10000)>>
    [] <<l, a, b>> = <<50, 0 - 80, 0 - 70>> ->
         <<Q(0 - 63795, 10000), Q(5992, 10000), Q(9354, 10000)>>
    [] <<l, a, b>> = <<100, 127, 127>> ->
         <<Q(19212, 10000), Q(2762, 10000), Q(0 - 5638, 10000)>>

labToRgb(l, a, b) ==
  LET rgb == labGamma(l, a, b)
      clamp(v) == QMax(QInt(0), QMin(QInt(1), v))
  IN [r |-> clamp(rgb[1]), g |-> clamp(rgb[2]), b |-> clamp(rgb[3])]

\* convertColorToHex of styleConverter.ts: the first branch whose keys are
\* all present decides
convertColorToHex(color) ==
  LET q255 == QInt(255)
  IN IF Has(color, {"r", "g", "b"})
       THEN rgbaToHex(QDiv(color.r, q255), QDiv(color.g, q255),
                      QDiv(color.b, q255),
                      IF "a" \in DOMAIN color THEN Given(QDiv(color.a, q255))
                      ELSE Absent)
     ELSE IF Has(color, {"fr", "fg", "fb"})
       THEN rgbaToHex(color.fr, color.fg, color.fb, Absent)
     ELSE IF Has(color, {"k"})
       THEN LET value == QSub(QInt(1), QDiv(color.k, q255))
            IN rgbaToHex(value, value, value, Absent)
     ELSE IF Has(color, {"h", "s", "b"})
       THEN LET rgb == hsbToRgb(color.h, color.s, color.b)
            IN rgbaToHex(rgb.r, rgb.g, rgb.b, Absent)
     ELSE IF Has(color, {"c", "m", "y", "k"})
       THEN LET rgb == cmykToRgb(QDiv(color.c, q255), QDiv(color.m, q255),
                                 QDiv(color.y, q255), QDiv(color.k, q255))
            IN rgbaToHex(rgb.r, rgb.g, rgb.b, Absent)
     ELSE IF Has(color, {"l", "a", "b"})
       THEN LET rgb == labToRgb(color.l.n, color.a.n, color.b.n)
            IN rgbaToHex(rgb.r, rgb.g, rgb.b, Absent)
     ELSE NoColorString

\* ------------------------------------------------- utils.ts: colours
normalizeColorChannelTo255(n) ==
  IF QLe(n, QInt(0)) THEN 0
  ELSE IF QLe(n, QInt(1)) THEN QRound(QMul(n, QInt(255)))
  ELSE IF QLe(n, QInt(255)) THEN QRound(n)
  ELSE IF QLe(n, QInt(4095))
    THEN QRound(QMul(QDiv(n, QInt(4095)), QInt(255)))
  ELSE QRound(QMul(QDiv(n, QInt(65535)), QInt(255)))

\* value is Absent for undefined
normalizeAlphaToUnit(value) ==
  IF ~value.present THEN QInt(1)
  ELSE LET n == value.v
       IN IF QLe(n, QInt(0)) THEN QInt(0)
          ELSE IF QLe(n, QInt(1)) THEN n
          ELSE IF QLe(n, QInt(100)) THEN QDiv(n, QInt(100))
          ELSE IF QLe(n, QInt(255)) THEN QDiv(n, QInt(255))
          ELSE IF QLe(n, QInt(4095)) THEN QDiv(n, QInt(4095))
          ELSE QDiv(n, QInt(65535))

\* src.r ?? src.red ?? 0 and its companions, then the clamps
normalizeColorObject(color) ==
  LET pick(short, long) ==
        IF short \in DOMAIN color THEN color[short]
        ELSE IF long \in DOMAIN color THEN color[long]
        ELSE QInt(0)
      clamp255(v) == IF v > 255 THEN 255 ELSE IF v < 0 THEN 0 ELSE v
      r == normalizeColorChannelTo255(pick("r", "red"))
      g == normalizeColorChannelTo255(pick("g", "green"))
      b == normalizeColorChannelTo255(pick("b", "blue"))
      a == normalizeAlphaToUnit(IF "a" \in DOMAIN color THEN Given(color.a)
                                ELSE Absent)
  IN [r |-> clamp255(r), g |-> clamp255(g), b |-> clamp255(b),
      a |-> QMin(QInt(1), QMax(QInt(0), a))]

\* Math.round(n).toString(16).padStart(2, '0') for an integer n
toHex2(n) ==
  LET hex == toString16(n)
  IN IF Len(hex) < 2 THEN <<"0">> \o hex ELSE hex

\* convertColorToHex of utils.ts, which the newer text and effect converters
\* import
utilsConvertColorToHex(color) ==
  LET c == normalizeColorObject(color)
  IN HexString(toHex2(c.r) \o toHex2(c.g) \o toHex2(c.b))

\* if (textStyle.fillColor) { ... styles.color = colorValue } as the newer
\* convertTextStyles does it, with convertColorToHex imported from utils.ts
fillColorStyles(fillColor) ==
  LET colorValue == utilsConvertColorToHex(fillColor)
  IN IF colorValue.form # "undefined" THEN ("color" :> colorValue) ELSE <<>>

\* -------------------------------------------- the colour converters alone
ByteChannels == {QInt(0), QInt(1), QInt(128), QInt(255)}
UnitChannels == {QInt(0), Q(1, 2), QInt(1), Q(3, 2)}
Alphas == {QInt(0), Q(1, 2), QInt(128), QInt(255)}
Hues == {QInt(0), QInt(30), QInt(90), QInt(150), QInt(210), QInt(270),
         QInt(330), QInt(360)}
Shares == {QInt(0), Q(1, 2), QInt(1)}
InkChannels == {QInt(0), QInt(128), QInt(255)}

RgbColors == [r : ByteChannels, g : ByteChannels, b : ByteChannels]
RgbaColors == [r : ByteChannels, g : ByteChannels, b : ByteChannels, a : Alphas]
FrgbColors == [fr : UnitChannels, fg : UnitChannels, fb : UnitChannels]
GrayscaleColors == [k : InkChannels]
HsbColors == [h : Hues, s : Shares, b : Shares]
CmykColors == [c : InkChannels, m : InkChannels, y : InkChannels, k : InkChannels]
LabColors ==
  {[l |-> QInt(t[1]), a |-> QInt(t[2]), b |-> QInt(t[3])] :
     t \in {<<0, 0, 0>>, <<50, 0, 0>>, <<100, 0, 0>>, <<50, 80, 70>>,
            <<50, 0 - 80, 0 - 70>>, <<100, 127, 127>>}}

NoColor == [none |-> QInt(0)]

InitColor ==
  /\ buffer = NullBuffer
  /\ options = [logging |-> JUndef, includeHidden |-> JUndef, units |-> JUndef]
  /\ pc = "idle"
  /\ Idle
  /\ \/ \E r \in UnitChannels, g \in UnitChannels, b \in UnitChannels,
          a \in {Absent} \cup {Given(x) : x \in {QInt(0), Q(1, 2), QInt(1)}} :
          fin = [op |-> "rgbaToHex", color |-> NoColor,
                 args |-> [r |-> r, g |-> g, b |-> b, a |-> a]]
     \/ \E op \in {"convertColorToHex", "fillColor"} :
          \/ \E c \in RgbColors : fin = [op |-> op, color |-> c]
          \/ \E c \in RgbaColors : fin = [op |-> op, color |-> c]
          \/ \E c \in FrgbColors : fin = [op |-> op, color |-> c]
          \/ \E c \in GrayscaleColors : fin = [op |-> op, color |-> c]
          \/ \E c \in HsbColors : fin = [op |-> op, color |-> c]
          \/ \E c \in CmykColors : fin = [op |-> op, color |-> c]
          \/ \E c \in LabColors : fin = [op |-> op, color |-> c]
  /\ fout = NoOutput

ApplyRgbaToHex ==
  /\ fin.op = "rgbaToHex"
  /\ ~fout.done
  /\ fout' = [done |-> TRUE,
              value |-> rgbaToHex(fin.args.r, fin.args.g, fin.args.b, fin.args.a)]
  /\ UNCHANGED <<callVars, fin>>

ApplyConvertColorToHex ==
  /\ fin.op = "convertColorToHex"
  /\ ~fout.done
  /\ fout' = [done |-> TRUE, value |-> convertColorToHex(fin.color)]
  /\ UNCHANGED <<callVars, fin>>

ApplyFillColor ==
  /\ fin.op = "fillColor"
  /\ ~fout.done
  /\ fout' = [done |-> TRUE, value |-> fillColorStyles(fin.color)]
  /\ UNCHANGED <<callVars, fin>>

NextColor == ApplyRgbaToHex \/ ApplyConvertColorToHex \/ ApplyFillColor

SpecColor == InitColor /\ [][NextColor]_vars

\* the alpha of the colour handed to rgbaToHex or convertColorToHex: the a of
\* an RGBA colour is a byte
AlphaGiven ==
  IF fin.op = "rgbaToHex" THEN fin.args.a
  ELSE IF Has(fin.color, {"r", "g", "b", "a"})
    THEN Given(QDiv(fin.color.a, QInt(255)))
  ELSE Absent

\* '#' and exactly six lower-case hex digits
WellFormedHex(str) ==
  /\ str.form = "hex"
  /\ Len(str.digits) = 6
  /\ \A i \in 1..Len(str.digits) :
       \E j \in 1..Len(HexDigits) : str.digits[i] = HexDigits[j]

\* rgba(R, G, B, a) with whole channels and an alpha d.dd
WellFormedRgba(str) ==
  /\ str.form = "rgba"
  /\ \A i \in 1..3 : str.rgb[i] >= 0
  /\ str.a >= 0 /\ str.a <= 999

\* C16 as claimed: for every colour of every supported colourspace and every
\* channel value the rendered string is '#' and exactly six lower-case hex
\* digits when alpha is absent or 1, and rgba(R, G, B, a) with whole channels
\* and a two-decimal alpha when alpha is below 1.
C16_ColorStringForm ==
  (fin.op \in {"rgbaToHex", "convertColorToHex"} /\ fout.done) =>
    /\ (~AlphaGiven.present \/ AlphaGiven.v = QInt(1)) =>
         WellFormedHex(fout.value)
    /\ (AlphaGiven.present /\ QLt(AlphaGiven.v, QInt(1))) =>
         WellFormedRgba(fout.value)

\* x modulo 6 for x >= 0
QMod6(x) == QSub(x, QInt(6 * (x.n \div (6 * x.d))))

\* the textbook HSB-to-RGB conversion for a hue in degrees:
\* f(n) = b - b s max(0, min(k, 4 - k, 1)) with k = (n + h/60) mod 6
HsbFormula(h, s, b) ==
  LET f(n) ==
        LET k == QMod6(QAdd(QInt(n), QDiv(h, QInt(60))))
            w == QMax(QInt(0), QMin(QMin(k, QSub(QInt(4), k)), QInt(1)))
        IN QSub(b, QMul(QMul(b, s), w))
  IN [r |-> f(5), g |-> f(3), b |-> f(1)]

\* the rendering of three channel fractions without alpha
Rendering(rgb) == rgbaToHex(rgb.r, rgb.g, rgb.b, Absent)

\* C19 as claimed: each colourspace goes to its own conversion: a CMYK colour
\* gives the rendering of r = 1 - min(1, c(1-k)+k), g = 1 - min(1, m(1-k)+k),
\* b = 1 - min(1, y(1-k)+k), an HSB colour that of the HSB-to-RGB formula, and
\* a grayscale colour (k only) that of 1 - k/255 on all three channels.
C19_ColorspaceDispatch ==
  (fin.op = "convertColorToHex" /\ fout.done) =>
    LET color == fin.color
        one == QInt(1)
        unit(v) == QDiv(v, QInt(255))
        ink(v) == QSub(one, QMin(one, QAdd(QMul(unit(v), QSub(one, unit(color.k))),
                                           unit(color.k))))
        gray == QSub(one, unit(color.k))
    IN /\ DOMAIN color = {"c", "m", "y", "k"} =>
            fout.value = Rendering([r |-> ink(color.c), g |-> ink(color.m),
                                    b |-> ink(color.y)])
       /\ DOMAIN color = {"h", "s", "b"} =>
            fout.value = Rendering(HsbFormula(color.h, color.s, color.b))
       /\ DOMAIN color = {"k"} =>
            fout.value = Rendering([r |-> gray, g |-> gray, b |-> gray])

\* the alpha of an RGBA colour as the converter that renders it reads it:
\* a byte for styleConverter.ts, normalizeAlphaToUnit for utils.ts
AlphaRendered ==
  IF fin.op = "fillColor" THEN normalizeAlphaToUnit(Given(fin.color.a))
  ELSE QDiv(fin.color.a, QInt(255))

\* the colour string that went into the style record
ColorRendered ==
  IF fin.op = "fillColor"
    THEN (IF "color" \in DOMAIN fout.value THEN fout.value["color"]
          ELSE NoColorString)
    ELSE fout.value

\* C20 as claimed: whenever a colour whose alpha is below 1 is rendered for a
\* style record the output is an rgba(R, G, B, a) string that carries that
\* alpha, never a six-digit hex string.
C20_AlphaKept ==
  (fin.op \in {"convertColorToHex", "fillColor"} /\ fout.done
     /\ DOMAIN fin.color = {"r", "g", "b", "a"}
     /\ QLt(AlphaRendered, QInt(1))) =>
    /\ ColorRendered.form = "rgba"
    /\ ColorRendered.a = QToFixed2(AlphaRendered)

\* ------------------------------------------------------------ gradients
MaxStops == 3

\* a % m as JavaScript computes it for whole numbers: the sign follows a
JsRem(a, m) == IF a >= 0 THEN a % m ELSE 0 - ((0 - a) % m)

\* x.toFixed(1), in tenths
QToFixed1(x) == RoundDiv(x.n * 10, x.d)

\* the text of a stop position: n with d decimals, 'NaN', or none at all
PercentText(n, d) == [kind |-> "number", n |-> n, d |-> d]
NaNText == [kind |-> "NaN", n |-> 0, d |-> 0]
NoPercentText == [kind |-> "none", n |-> 0, d |-> 0]

\* location is Absent for undefined, whose Number() is NaN
normalizeStopLocationToPercent(location) ==
  IF ~location.present THEN QInt(0)
  ELSE LET n == location.v
       IN IF QLt(n, QInt(0)) THEN QInt(0)
          ELSE IF QLe(n, QInt(1)) THEN QMul(n, QInt(100))
          ELSE IF QLe(n, QInt(100)) THEN n
          ELSE IF QLe(n, QInt(4096)) THEN QMul(QDiv(n, QInt(4096)), QInt(100))
          ELSE QMul(QDiv(n, QInt(65535)), QInt(100))

\* p is a finite number here
formatPercent(p) ==
  LET v == QMax(QInt(0), QMin(QInt(100), p))
  IN IF QLt(v, QInt(1)) THEN PercentText(QToFixed2(v), 2)
     ELSE PercentText(QToFixed1(v), 1)

\* rawStops.map(...): the colour, the position and the place in colorStops.
\* A stop without a colour has color = NoColor and is painted black.
mappedStops(rawStops) ==
  [i \in 1..Len(rawStops) |->
     LET stop == rawStops[i]
         color == IF stop.color = NoColor
                    THEN [r |-> QInt(0), g |-> QInt(0), b |-> QInt(0)]
                    ELSE stop.color
         c == normalizeColorObject(color)
     IN [hexColor |-> HexString(toHex2(c.r) \o toHex2(c.g) \o toHex2(c.b)),
         pos |-> normalizeStopLocationToPercent(stop.location),
         index |-> i - 1]]

\* a faulty variant that spreads the stops over i / n
distributedStopsOverN(mapped) ==
  LET n == Len(mapped)
      allEqual == \A i, j \in 1..n : mapped[i].pos = mapped[j].pos
  IN [k \in 1..n |->
        LET pos == IF allEqual THEN Q((k - 1) * 100, n) ELSE mapped[k].pos
        IN [mapped[k] EXCEPT !.pos = QMax(QInt(0), QMin(QInt(100), pos))]]

\* every pos is finite, so allInvalid is false and allEqual is
\* minPos === maxPos
distributedStops(mapped) ==
  LET n == Len(mapped)
      minPos == CHOOSE p \in {mapped[i].pos : i \in 1..n} :
                  \A i \in 1..n : QLe(p, mapped[i].pos)
      maxPos == CHOOSE p \in {mapped[i].pos : i \in 1..n} :
                  \A i \in 1..n : QLe(mapped[i].pos, p)
      allEqual == minPos = maxPos
  IN [k \in 1..n |->
        LET i == k - 1
            pos == IF allEqual
                     THEN IF n > 1 THEN QMul(Q(i, n - 1), QInt(100))
                          ELSE QInt(0)
                     ELSE mapped[k].pos
        IN [mapped[k] EXCEPT !.pos = QMax(QInt(0), QMin(QInt(100), pos))]]

RemoveAt(s, m) == [k \in 1..(Len(s) - 1) |-> IF k < m THEN s[k] ELSE s[k + 1]]

\* a faulty variant that puts the later of two equal positions first
RECURSIVE sortByPositionLaterFirst(_)
sortByPositionLaterFirst(stops) ==
  IF stops = <<>> THEN <<>>
  ELSE LET before(a, b) ==
             QLt(a.pos, b.pos) \/ (a.pos = b.pos /\ a.index > b.index)
           m == CHOOSE i \in 1..Len(stops) :
                  \A j \in 1..Len(stops) : j # i => before(stops[i], stops[j])
       IN <<stops[m]>> \o sortByPositionLaterFirst(RemoveAt(stops, m))

\* distributedStops.sort((a, b) => a.pos - b.pos || a.index - b.index): the
\* comparator is a total order, so the sorted array is the one it determines
RECURSIVE sortByPosition(_)
sortByPosition(stops) ==
  IF stops = <<>> THEN <<>>
  ELSE LET before(a, b) ==
             QLt(a.pos, b.pos) \/ (a.pos = b.pos /\ a.index < b.index)
           m == CHOOSE i \in 1..Len(stops) :
                  \A j \in 1..Len(stops) : j # i => before(stops[i], stops[j])
       IN <<stops[m]>> \o sortByPosition(RemoveAt(stops, m))

\* the value of a gradient string: the CSS function, its shape words, its
\* angle and its comma-separated stops; each stop keeps the index it had in
\* colorStops beside its colour and its position text
NoAngle == [present |-> FALSE, deg |-> 0]
Deg(v) == [present |-> TRUE, deg |-> v]
GradientString(fn, shape, angle, stops) ==
  [fn |-> fn, shape |-> shape, angle |-> angle, stops |-> stops]
Transparent == GradientString("transparent", "", NoAngle, <<>>)
NoiseGradientString ==
  GradientString("linear-gradient", "", Deg(45),
    <<[hexColor |-> HexString(<<"8", "8", "8">>), text |-> NoPercentText,
       index |-> 0],
      [hexColor |-> HexString(<<"a", "a", "a">>), text |-> NoPercentText,
       index |-> 1]>>)

\* switch (type) of both converters, given the angle written for linear and
\* reflected gradients
gradientSwitch(type, gradientAngle, linearAngle, colorStops) ==
  CASE type = "radial" ->
         GradientString("radial-gradient", "circle at center", NoAngle,
                        colorStops)
    [] type = "angle" ->
         GradientString("conic-gradient", "at center", Deg(gradientAngle),
                        colorStops)
    [] type = "reflected" ->
         GradientString("repeating-linear-gradient", "", Deg(linearAngle),
                        colorStops)
    [] type = "diamond" ->
         GradientString("radial-gradient", "ellipse at center", NoAngle,
                        colorStops)
    [] OTHER ->
         GradientString("linear-gradient", "", Deg(linearAngle), colorStops)

\* SelectSeq keeps the stops whose colour string is not undefined
HasColorString(s) == s.hexColor.form # "undefined"

\* convertGradientToCss of styleConverter.ts; angle is NoAngle for undefined
styleConverterGradientToCss(gradient, type, angle) ==
  IF gradient.type = "noise" THEN NoiseGradientString
  ELSE IF Len(gradient.colorStops) = 0 THEN Transparent
  ELSE LET all == [i \in 1..Len(gradient.colorStops) |->
                     LET stop == gradient.colorStops[i]
                     IN [hexColor |-> convertColorToHex(stop.color),
                         text |-> IF stop.location.present
                                    THEN PercentText(
                                           QToFixed1(QMul(stop.location.v,
                                                          QInt(100))), 1)
                                    ELSE NaNText,
                         index |-> i - 1]]
           colorStops == SelectSeq(all, HasColorString)
           gradientAngle == IF angle.present THEN angle.deg ELSE 0
       IN IF colorStops = <<>> THEN Transparent
          ELSE gradientSwitch(type, gradientAngle, gradientAngle, colorStops)

\* convertGradientToCss of the newer converter
convertGradientToCss(gradient, type, angle) ==
  IF gradient.type = "noise" THEN NoiseGradientString
  ELSE IF Len(gradient.colorStops) = 0 THEN Transparent
  ELSE LET sorted == sortByPosition(
                       distributedStops(mappedStops(gradient.colorStops)))
           colorStops == [i \in 1..Len(sorted) |->
                            [hexColor |-> sorted[i].hexColor,
                             text |-> formatPercent(sorted[i].pos),
                             index |-> sorted[i].index]]
           gradientAngle == IF angle.present THEN angle.deg ELSE 0
           cssAngle == JsRem(90 - gradientAngle, 360)
       IN gradientSwitch(type, gradientAngle, cssAngle, colorStops)

\* ---------------------------------------- the gradient converters alone
StopLocations ==
  {Absent} \cup
  {Given(x) : x \in {QInt(0 - 1), QInt(0), Q(1, 2), QInt(1), QInt(50),
                     QInt(2048), QInt(65535), QInt(131070)}}
StopColors == {NoColor, [r |-> QInt(255), g |-> QInt(128), b |-> QInt(0)]}
ColorStops == [color : StopColors, location : StopLocations]
GradientStyles ==
  {"undefined", "linear", "radial", "angle", "reflected", "diamond"}
GradientAngles ==
  {NoAngle} \cup
  {Deg(v) : v \in {0 - 300, 0 - 90, 0, 45, 90, 91, 180, 270, 360, 450}}
SolidGradient(stops) == [type |-> "solid", colorStops |-> stops]
NoiseGradient == [type |-> "noise", colorStops |-> <<>>]
TwoStops ==
  <<[color |-> [r |-> QInt(255), g |-> QInt(128), b |-> QInt(0)],
     location |-> Given(QInt(0))],
    [color |-> [r |-> QInt(0), g |-> QInt(0), b |-> QInt(255)],
     location |-> Given(QInt(1))]>>

InitGradient ==
  /\ buffer = NullBuffer
  /\ options = [logging |-> JUndef, includeHidden |-> JUndef, units |-> JUndef]
  /\ pc = "idle"
  /\ Idle
  /\ \/ \E n \in 1..MaxStops : \E stops \in [1..n -> ColorStops] :
          fin = [op |-> "convertGradientToCss",
                 gradient |-> SolidGradient(stops),
                 type |-> "linear", angle |-> NoAngle]
     \/ \E op \in {"convertGradientToCss", "styleConverterGradientToCss"},
           g \in {NoiseGradient, SolidGradient(<<>>), SolidGradient(TwoStops)},
           t \in GradientStyles, a \in GradientAngles :
          fin = [op |-> op, gradient |-> g, type |-> t, angle |-> a]
  /\ fout = NoOutput

ApplyConvertGradientToCss ==
  /\ fin.op = "convertGradientToCss"
  /\ ~fout.done
  /\ fout' = [done |-> TRUE,
              value |-> convertGradientToCss(fin.gradient, fin.type, fin.angle)]
  /\ UNCHANGED <<callVars, fin>>

ApplyStyleConverterGradientToCss ==
  /\ fin.op = "styleConverterGradientToCss"
  /\ ~fout.done
  /\ fout' = [done |-> TRUE,
              value |-> styleConverterGradientToCss(fin.gradient, fin.type,
                                                    fin.angle)]
  /\ UNCHANGED <<callVars, fin>>

NextGradient == ApplyConvertGradientToCss \/ ApplyStyleConverterGradientToCss

SpecGradient == InitGradient /\ [][NextGradient]_vars

\* a finished run of the newer converter on a solid gradient with stops
SolidDone ==
  /\ fout.done
  /\ fin.op = "convertGradientToCss"
  /\ fin.gradient.type = "solid"
  /\ Len(fin.gradient.colorStops) >= 1

\* the position text in hundredths of a percent
Hundredths(text) == IF text.d = 2 THEN text.n ELSE text.n * 10

\* the text is the exact position num / den printed with text.d decimals
PrintsAs(text, num, den) ==
  LET scale == IF text.d = 2 THEN 100 ELSE 10
      diff == text.n * den - num * scale
  IN /\ text.kind = "number"
     /\ 2 * diff <= den
     /\ 2 * (0 - diff) <= den

SameLocations(stops) ==
  \A i, j \in 1..Len(stops) :
    normalizeStopLocationToPercent(stops[i].location)
      = normalizeStopLocationToPercent(stops[j].location)

GradientDone ==
  /\ fout.done
  /\ fin.op \in {"convertGradientToCss", "styleConverterGradientToCss"}
  /\ fin.gradient.type = "solid"
  /\ Len(fin.gradient.colorStops) >= 1

DocumentAngle == IF fin.angle.present THEN fin.angle.deg ELSE 0

\* C23: a linear or reflected gradient is written with the angle
\* (90 - A) mod 360 taken in [0, 360), A being the document's angle or 0; an
\* 'angle' gradient is written as a conic gradient from A unchanged; radial
\* and diamond gradients carry no angle.
C23_GradientAngle ==
  GradientDone =>
    /\ fin.type \in {"linear", "reflected"} =>
         fout.value.angle = Deg((90 - DocumentAngle) % 360)
    /\ fin.type = "angle" =>
         /\ fout.value.fn = "conic-gradient"
         /\ fout.value.angle = Deg(DocumentAngle)
    /\ fin.type \in {"radial", "diamond"} => fout.value.angle = NoAngle

\* ------------------------------------------------- utils.ts: text geometry
\* A text layer as getTextLayerBoundingBox reads it: the four coordinates of
\* the layer (Absent for undefined), and of layer.text the boxBounds and the
\* boundingBox (<<>> for undefined, else left, top, right, bottom) and the
\* transform (<<>> for undefined, else a, b, c, d, e, f).
TextBoxLayer(left, top, right, bottom, boxBounds, boundingBox, transform) ==
  [left |-> left, top |-> top, right |-> right, bottom |-> bottom,
   text |-> [boxBounds |-> boxBounds, boundingBox |-> boundingBox,
             transform |-> transform]]

\* x ?? 0
OrZeroQ(x) == IF x.present THEN x.v ELSE QInt(0)

\* x || y for numbers
OrElseQ(x, y) == IF x.n # 0 THEN x ELSE y

Box(left, top, right, bottom) ==
  [left |-> left, top |-> top, right |-> right, bottom |-> bottom,
   width |-> QSub(right, left), height |-> QSub(bottom, top)]

QMinOf(s) == CHOOSE x \in s : \A y \in s : QLe(x, y)
QMaxOf(s) == CHOOSE x \in s : \A y \in s : QLe(y, x)

\* a faulty variant that exchanges the coefficients b and c
getTextLayerBoundingBoxSwapped(layer) ==
  LET defaultBounds == [left |-> OrZeroQ(layer.left), top |-> OrZeroQ(layer.top),
                        right |-> OrZeroQ(layer.right),
                        bottom |-> OrZeroQ(layer.bottom)]
      boundingBox == IF layer.text.boundingBox # <<>>
                       THEN layer.text.boundingBox
                       ELSE <<defaultBounds.left, defaultBounds.top,
                              defaultBounds.right, defaultBounds.bottom>>
      box == IF layer.text.boxBounds # <<>> THEN layer.text.boxBounds
             ELSE boundingBox
      t == layer.text.transform
      x(p) == QAdd(QAdd(QMul(t[1], p[1]), QMul(t[2], p[2])), t[5])
      y(p) == QAdd(QAdd(QMul(t[3], p[1]), QMul(t[4], p[2])), t[6])
      points == {<<box[1], box[2]>>, <<box[3], box[2]>>, <<box[3], box[4]>>,
                 <<box[1], box[4]>>}
  IN IF t = <<>> \/ \A i \in 1..6 : t[i].n = 0
       THEN Box(OrElseQ(box[1], defaultBounds.left),
                OrElseQ(box[2], defaultBounds.top),
                OrElseQ(box[3], defaultBounds.right),
                OrElseQ(box[4], defaultBounds.bottom))
       ELSE Box(QMinOf({x(p) : p \in points}), QMinOf({y(p) : p \in points}),
                QMaxOf({x(p) : p \in points}), QMaxOf({y(p) : p \in points}))

getTextLayerBoundingBox(layer) ==
  LET defaultBounds == [left |-> OrZeroQ(layer.left), top |-> OrZeroQ(layer.top),
                        right |-> OrZeroQ(layer.right),
                        bottom |-> OrZeroQ(layer.bottom)]
      boundingBox == IF layer.text.boundingBox # <<>>
                       THEN layer.text.boundingBox
                       ELSE <<defaultBounds.left, defaultBounds.top,
                              defaultBounds.right, defaultBounds.bottom>>
      box == IF layer.text.boxBounds # <<>> THEN layer.text.boxBounds
             ELSE boundingBox
      t == layer.text.transform
      \* a * x + c * y + e and b * x + d * y + f
      x(p) == QAdd(QAdd(QMul(t[1], p[1]), QMul(t[3], p[2])), t[5])
      y(p) == QAdd(QAdd(QMul(t[2], p[1]), QMul(t[4], p[2])), t[6])
      points == {<<box[1], box[2]>>, <<box[3], box[2]>>, <<box[3], box[4]>>,
                 <<box[1], box[4]>>}
  IN IF t = <<>> \/ \A i \in 1..6 : t[i].n = 0
       THEN Box(OrElseQ(box[1], defaultBounds.left),
                OrElseQ(box[2], defaultBounds.top),
                OrElseQ(box[3], defaultBounds.right),
                OrElseQ(box[4], defaultBounds.bottom))
       ELSE Box(QMinOf({x(p) : p \in points}), QMinOf({y(p) : p \in points}),
                QMaxOf({x(p) : p \in points}), QMaxOf({y(p) : p \in points}))

\* the square root of a fraction whose numerator and denominator are squares
QSqrt(x) ==
  LET root(k) == CHOOSE r \in 0..k : r * r = k
  IN Q(root(x.n), root(x.d))

\* a text layer as the font size is read from it: layer.text.style (<<>> for
\* undefined, else a record with fontSize, Absent for undefined) and
\* layer.text.transform
FontLayer(style, transform) == [text |-> [style |-> style, transform |-> transform]]

\* the string `${v}px`
PxString(v) == [form |-> "px", v |-> v]

\* convertDimensionValue with one argument, as the newer converter calls it
convertDimensionValuePx(value) == PxString(value)

\* a faulty variant that takes the scale from the coefficient a alone
getRealFontSizeHorizontal(layer) ==
  IF layer.text.style = <<>> \/ layer.text.transform = <<>> THEN QInt(0)
  ELSE LET fontSize == OrZeroQ(layer.text.style.fontSize)
           t == layer.text.transform
       IN QMul(fontSize, QAbs(t[1]))

getRealFontSize(layer) ==
  IF layer.text.style = <<>> \/ layer.text.transform = <<>> THEN QInt(0)
  ELSE LET fontSize == OrZeroQ(layer.text.style.fontSize)
           t == layer.text.transform
           scaleX == QSqrt(QAdd(QMul(t[1], t[1]), QMul(t[2], t[2])))
       IN QMul(fontSize, scaleX)

\* if (textStyle.fontSize !== undefined) { ... } of the newer convertTextStyles
fontSizeStyles(layer) ==
  IF layer.text.style = <<>> THEN <<>>
  ELSE IF ~layer.text.style.fontSize.present THEN <<>>
  ELSE LET realFontSize == getRealFontSize(layer)
       IN IF QLt(QInt(0), realFontSize)
            THEN "fontSize" :> PxString(realFontSize)
            ELSE "fontSize" :> convertDimensionValuePx(layer.text.style.fontSize.v)

\* ----------------------------------------------- the text geometry alone
TextStyles ==
  {<<>>} \cup
  {[fontSize |-> s] :
     s \in {Absent} \cup {Given(x) : x \in {QInt(0), QInt(12), QInt(24),
                                              Q(21, 2), QInt(0 - 10)}}}
QSeq(s) == [i \in 1..Len(s) |-> QInt(s[i])]
LayerLefts == {Absent, Given(QInt(0)), Given(QInt(100))}
LayerTops == {Absent, Given(QInt(0)), Given(QInt(60))}
LayerRights == {Given(QInt(300))}
LayerBottoms == {Absent, Given(QInt(110))}
BoxBounds ==
  {<<>>, QSeq(<<0, 0, 200, 50>>), QSeq(<<10, 20, 210, 70>>),
   QSeq(<<0 - 5, 0 - 5, 5, 5>>)}
BoundingBoxes == {<<>>, QSeq(<<10, 20, 110, 40>>), QSeq(<<0, 0, 100, 20>>)}
ZeroTransform == QSeq(<<0, 0, 0, 0, 0, 0>>)
Transforms ==
  {<<>>, ZeroTransform,
   QSeq(<<1, 0, 0, 1, 10, 20>>), QSeq(<<2, 0, 0, 2, 0, 0>>),
   QSeq(<<0, 1, 0 - 1, 0, 100, 50>>), QSeq(<<0 - 1, 0, 0, 1, 0, 0>>),
   QSeq(<<3, 4, 0 - 4, 3, 7, 0 - 7>>), QSeq(<<0, 0, 0, 0, 5, 5>>),
   <<QInt(1), QInt(0), Q(1, 2), QInt(1), QInt(0), QInt(0)>>}

InitTextBox ==
  /\ buffer = NullBuffer
  /\ options = [logging |-> JUndef, includeHidden |-> JUndef, units |-> JUndef]
  /\ pc = "idle"
  /\ Idle
  /\ \E l \in LayerLefts, t \in LayerTops, r \in LayerRights,
        b \in LayerBottoms, bb \in BoxBounds, bx \in BoundingBoxes,
        tr \in Transforms :
       fin = [op |-> "getTextLayerBoundingBox",
              layer |-> TextBoxLayer(l, t, r, b, bb, bx, tr)]
  /\ fout = NoOutput

InitFontSize ==
  /\ buffer = NullBuffer
  /\ options = [logging |-> JUndef, includeHidden |-> JUndef, units |-> JUndef]
  /\ pc = "idle"
  /\ Idle
  /\ \E st \in TextStyles, tr \in Transforms :
       fin = [op |-> "fontSize", layer |-> FontLayer(st, tr)]
  /\ fout = NoOutput

InitText == InitTextBox \/ InitFontSize

ApplyGetTextLayerBoundingBox ==
  /\ fin.op = "getTextLayerBoundingBox"
  /\ ~fout.done
  /\ fout' = [done |-> TRUE, value |-> getTextLayerBoundingBox(fin.layer)]
  /\ UNCHANGED <<callVars, fin>>

ApplyFontSize ==
  /\ fin.op = "fontSize"
  /\ ~fout.done
  /\ fout' = [done |-> TRUE, value |-> fontSizeStyles(fin.layer)]
  /\ UNCHANGED <<callVars, fin>>

NextText == ApplyGetTextLayerBoundingBox \/ ApplyFontSize

SpecText == InitText /\ [][NextText]_vars

TextBoxDone == fout.done /\ fin.op = "getTextLayerBoundingBox"

NoTransform ==
  \/ fin.layer.text.transform = <<>>
  \/ fin.layer.text.transform = ZeroTransform

\* the stored text box when there is one, else the layer's rectangle
NominalBox ==
  LET l == fin.layer
  IN IF l.text.boxBounds # <<>> THEN l.text.boxBounds
     ELSE IF l.text.boundingBox # <<>> THEN l.text.boundingBox
     ELSE <<OrZeroQ(l.left), OrZeroQ(l.top), OrZeroQ(l.right),
            OrZeroQ(l.bottom)>>

\* C24: without a transform (absent, or six zero coefficients) the box
\* returned for a text layer is the stored text box when there is one, else
\* the layer's rectangle, unmodified, with width = right - left and
\* height = bottom - top.
C24_NominalBoxUnmodified ==
  (TextBoxDone /\ NoTransform) =>
    /\ <<fout.value.left, fout.value.top, fout.value.right,
         fout.value.bottom>> = NominalBox
    /\ fout.value.width = QSub(fout.value.right, fout.value.left)
    /\ fout.value.height = QSub(fout.value.bottom, fout.value.top)

\* the four corners of the nominal box after the transform
TransformedCorners ==
  LET t == fin.layer.text.transform
      box == NominalBox
  IN {<<QAdd(QAdd(QMul(t[1], x), QMul(t[3], y)), t[5]),
        QAdd(QAdd(QMul(t[2], x), QMul(t[4], y)), t[6])>> :
        x \in {box[1], box[3]}, y \in {box[2], box[4]}}

\* C25: with a transform that has a non-zero coefficient, the box returned is
\* the smallest axis-aligned box around the four transformed corners
\* (a*x + c*y + e, b*x + d*y + f): it contains every corner, each side
\* touches one, left <= right, top <= bottom, and width and height are the
\* differences.
C25_TransformedBox ==
  (TextBoxDone /\ ~NoTransform) =>
    LET v == fout.value
    IN /\ \A p \in TransformedCorners :
            /\ QLe(v.left, p[1]) /\ QLe(p[1], v.right)
            /\ QLe(v.top, p[2]) /\ QLe(p[2], v.bottom)
       /\ \E p \in TransformedCorners : p[1] = v.left
       /\ \E p \in TransformedCorners : p[1] = v.right
       /\ \E p \in TransformedCorners : p[2] = v.top
       /\ \E p \in TransformedCorners : p[2] = v.bottom
       /\ QLe(v.left, v.right)
       /\ QLe(v.top, v.bottom)
       /\ v.width = QSub(v.right, v.left)
       /\ v.height = QSub(v.bottom, v.top)

C25_Witness ==
  /\ TextBoxDone
  /\ fin.layer.text.transform = QSeq(<<0, 1, 0 - 1, 0, 100, 50>>)
  /\ fin.layer.text.boxBounds = QSeq(<<10, 20, 210, 70>>)
  /\ fout.value = Box(QInt(30), QInt(60), QInt(80), QInt(260))

FontSizeDone ==
  /\ fout.done
  /\ fin.op = "fontSize"
  /\ fin.layer.text.style # <<>>
  /\ fin.layer.text.style.fontSize.present

UnusableCanvasLayers ==
  {[StyleLayer(NoText, c[1], l, t, r, b, o, m) EXCEPT
      !.imageData = ~c[1], !.toDataURL = c[2]] :
     c \in {<<FALSE, "ok">>, <<TRUE, "missing">>, <<TRUE, "throws">>},
     l \in {SUndef, SNum(40)}, t \in {SNum(5000)}, r \in {SNum(50000)},
     b \in {SNum(12000)}, o \in {SUndef, SNum(50)},
     m \in {SUndef, SStr("multiply"), SStr("unknown-mode")}}

InitCanvas ==
  \/ InitPair
  \/ /\ buffer = NullBuffer
     /\ options = [logging |-> JUndef, includeHidden |-> JUndef, units |-> JUndef]
     /\ pc = "idle"
     /\ Idle
     /\ \E y \in UnusableCanvasLayers, c \in Contexts :
          fin = [op |-> "convertImageLayer", context |-> c, layer |-> y]
     /\ fout = NoOutput

NextCanvas == Next \/ ApplyConvertImageLayer

SpecCanvas == InitCanvas /\ [][NextCanvas]_vars

\* the canvas of the layer cannot be rendered
Unusable(layer) == ~layer.canvas \/ layer.toDataURL # "ok"

\* the record without its value
Styles(record) == [k \in DOMAIN record \ {"value"} |-> record[k]]

Phrases ==
  {"out of memory", "Cannot allocate", "Invalid PSD", "signature",
   "Unexpected end of file"}
ErrorMessages ==
  {<<>>} \cup {<<p>> : p \in Phrases} \cup {<<p, q>> : p \in Phrases, q \in Phrases}
CaughtValues ==
  {JsError(m) : m \in ErrorMessages}
  \cup {PsdConversionError(c) : c \in ErrorCodes}
  \cup {PsdConversionErrorWith(<<"Original error">>, c, d) :
          c \in ErrorCodes, d \in {NonErrorValue, JsError(<<"signature">>)}}
  \cup {NonErrorValue}
ErrorContexts == {"", "PSD conversion", "Memory test"}

InitError ==
  /\ buffer = NullBuffer
  /\ options = [logging |-> JUndef, includeHidden |-> JUndef, units |-> JUndef]
  /\ pc = "idle"
  /\ Idle
  /\ \E e \in CaughtValues, c \in ErrorContexts :
       fin = [op |-> "handleConversionError", error |-> e, context |-> c]
  /\ fout = NoOutput

ApplyHandleConversionError ==
  /\ fin.op = "handleConversionError"
  /\ ~fout.done
  /\ fout' = [done |-> TRUE,
              value |-> Threw(handleConversionError(fin.error, fin.context))]
  /\ UNCHANGED <<callVars, fin>>

NextError == ApplyHandleConversionError

SpecError == InitError /\ [][NextError]_vars

Says(phrase) == \E i \in 1..Len(fin.error.message) : fin.error.message[i] = phrase

\* C28: handleConversionError always throws: a PsdConversionError is thrown
\* on as it is; another Error becomes a PsdConversionError with code
\* MEMORY_ERROR when its message contains 'out of memory' or 'Cannot
\* allocate', else INVALID_PSD_FORMAT when it contains 'Invalid PSD' or
\* 'signature', else PARSING_FAILED, with the Error as details; any other
\* value becomes PARSING_FAILED.
C28_ErrorClassification ==
  (fout.done /\ fin.op = "handleConversionError") =>
    LET thrown == fout.value.error IN
    /\ fout.value.threw
    /\ thrown.cls = "PsdConversionError"
    /\ fin.error.cls = "PsdConversionError" => thrown = fin.error
    /\ fin.error.cls = "Error" =>
         /\ thrown.code =
              IF Says("out of memory") \/ Says("Cannot allocate")
                THEN "MEMORY_ERROR"
              ELSE IF Says("Invalid PSD") \/ Says("signature")
                THEN "INVALID_PSD_FORMAT"
              ELSE "PARSING_FAILED"
         /\ thrown.details = <<fin.error>>
    /\ fin.error.cls = "value" => thrown.code = "PARSING_FAILED"

C28_Witness ==
  /\ fout.done
  /\ fin.op = "handleConversionError"
  /\ fin.error = JsError(<<"signature", "out of memory">>)
  /\ fout.value.threw
  /\ fout.value.error.code = "MEMORY_ERROR"
  /\ fout.value.error.details = <<fin.error>>

\* -------------------------------------------------------- layer effects
\* A UnitsValue or a number that may be undefined
NoUnits == [present |-> FALSE, v |-> 0]
Units(n) == [present |-> TRUE, v |-> n]

\* normalizeUnitsValue(value) with the fallback 0
normalizeUnitsValue(value) == IF value.present THEN value.v ELSE 0

\* x || 0 and the truthiness of a number that may be undefined
OrZeroUnits(x) == IF x.present THEN x.v ELSE 0
TruthyUnits(x) == x.present /\ x.v # 0

\* Math.cos and Math.sin of a whole number of quarter turns, in degrees
CosDeg(a) == CASE a = 0 -> 1 [] a = 90 -> 0 [] a = 180 -> 0 - 1
SinDeg(a) == CASE a = 0 -> 0 [] a = 90 -> 1 [] a = 180 -> 0

\* 'rgba(0,0,0,0.5)' and 'rgba(255,255,255,0.5)'
HalfBlack == RgbaString(0, 0, 0, 50)
HalfWhite == RgbaString(255, 255, 255, 50)

\* One comma-separated part of a shadow list: the effect it was made from,
\* the word inset, the two offsets, the blur, the spread (<<>> when the part
\* has none), the colour, and for a bevel the colour of its second shadow.
\* A bevel's part is kept as its angle (x), its size (y) and its two colours.
Fragment(effect, inset, x, y, blur, spread, color, second) ==
  [effect |-> effect, inset |-> inset, x |-> x, y |-> y, blur |-> blur,
   spread |-> spread, color |-> color, second |-> second]
EmptyFragment ==
  Fragment("", FALSE, 0, 0, 0, <<>>, NoColorString, <<>>)

\* filter(Boolean) on the parts
NonEmptyFragment(f) == f # EmptyFragment

\* EffectInfo: each entry is <<>> when the key is not set
NoEffectInfo ==
  [dropShadow |-> <<>>, innerShadow |-> <<>>, outerGlow |-> <<>>,
   innerGlow |-> <<>>, bevel |-> <<>>]

\* the first element of an effect array that is there and not disabled
FirstEnabled(array) ==
  IF array # <<>> /\ array[1].enabled # JFalse THEN <<array[1]>> ELSE <<>>

\* convertLayerEffects of the newer converter; layer.effects is <<>> when
\* the layer has none
convertLayerEffects(layer) ==
  IF layer.effects = <<>> THEN NoEffectInfo
  ELSE LET layerEffects == layer.effects[1]
           color(e) == IF e.color # NoColor THEN utilsConvertColorToHex(e.color)
                       ELSE NoColorString
           shadow(e, withSpread) ==
             LET distance == normalizeUnitsValue(e.distance)
                 angle == OrZeroUnits(e.angle)
             IN [color |-> color(e),
                 offsetX |-> Units(distance * CosDeg(angle)),
                 offsetY |-> Units(distance * SinDeg(angle)),
                 blur |-> Units(normalizeUnitsValue(e.size)),
                 spread |-> IF withSpread
                              THEN Units(normalizeUnitsValue(e.choke))
                              ELSE NoUnits]
           glow(e) == [color |-> color(e),
                       size |-> Units(normalizeUnitsValue(e.size)),
                       spread |-> Units(normalizeUnitsValue(e.choke))]
           bevel(e) ==
             LET size == IF normalizeUnitsValue(e.size) # 0
                           THEN normalizeUnitsValue(e.size) ELSE 1
                 angle == IF TruthyUnits(e.angle) THEN e.angle.v ELSE 120
             IN [boxShadow |->
                   Fragment("bevel", FALSE, angle, size, 0, <<>>,
                            IF e.color # NoColor
                              THEN utilsConvertColorToHex(e.color)
                              ELSE HalfWhite,
                            <<IF e.shadowColor # NoColor
                                THEN utilsConvertColorToHex(e.shadowColor)
                                ELSE HalfBlack>>)]
       IN [dropShadow |->
             [i \in 1..Len(FirstEnabled(layerEffects.dropShadow)) |->
                shadow(layerEffects.dropShadow[1], TRUE)],
           innerShadow |->
             [i \in 1..Len(FirstEnabled(layerEffects.innerShadow)) |->
                shadow(layerEffects.innerShadow[1], FALSE)],
           outerGlow |->
             [i \in 1..Len(FirstEnabled(layerEffects.outerGlow)) |->
                glow(layerEffects.outerGlow[1])],
           innerGlow |->
             [i \in 1..Len(FirstEnabled(layerEffects.innerGlow)) |->
                glow(layerEffects.innerGlow[1])],
           bevel |->
             [i \in 1..Len(FirstEnabled(layerEffects.bevel)) |->
                bevel(layerEffects.bevel[1])]]

\* convertLayerEffects of styleConverter.ts: the offsets are not rounded and
\* absent sizes stay undefined
styleConverterLayerEffects(layer) ==
  IF layer.effects = <<>> THEN NoEffectInfo
  ELSE LET layerEffects == layer.effects[1]
           color(e) == IF e.color # NoColor THEN convertColorToHex(e.color)
                       ELSE NoColorString
           shadow(e, withSpread) ==
             LET distance == OrZeroUnits(e.distance)
                 angle == OrZeroUnits(e.angle)
             IN [color |-> color(e),
                 offsetX |-> Units(CosDeg(angle) * distance),
                 offsetY |-> Units(SinDeg(angle) * distance),
                 blur |-> e.size,
                 spread |-> IF withSpread THEN e.choke ELSE NoUnits]
           glow(e) == [color |-> color(e), size |-> e.size, spread |-> e.choke]
           bevel(e) ==
             LET size == IF TruthyUnits(e.size) THEN e.size.v ELSE 1
                 angle == IF TruthyUnits(e.angle) THEN e.angle.v ELSE 120
             IN [boxShadow |->
                   Fragment("bevel", FALSE, angle, size, 0, <<>>,
                            IF e.color # NoColor THEN convertColorToHex(e.color)
                              ELSE HalfWhite,
                            <<IF e.shadowColor # NoColor
                                THEN convertColorToHex(e.shadowColor)
                                ELSE HalfBlack>>)]
       IN [dropShadow |->
             [i \in 1..Len(FirstEnabled(layerEffects.dropShadow)) |->
                shadow(layerEffects.dropShadow[1], TRUE)],
           innerShadow |->
             [i \in 1..Len(FirstEnabled(layerEffects.innerShadow)) |->
                shadow(layerEffects.innerShadow[1], FALSE)],
           outerGlow |->
             [i \in 1..Len(FirstEnabled(layerEffects.outerGlow)) |->
                glow(layerEffects.outerGlow[1])],
           innerGlow |->
             [i \in 1..Len(FirstEnabled(layerEffects.innerGlow)) |->
                glow(layerEffects.innerGlow[1])],
           bevel |->
             [i \in 1..Len(FirstEnabled(layerEffects.bevel)) |->
                bevel(layerEffects.bevel[1])]]

\* shadow.color || 'rgba(0,0,0,0.5)'
OrHalfBlack(color) == IF color = NoColorString THEN HalfBlack ELSE color

\* the shadow part of applyEffectsToStyles in the newer converter: the
\* styles it adds, boxShadow and textShadow being the joined parts
applyEffectsToStyles(effects, isText) ==
  LET drop ==
        [i \in 1..Len(effects.dropShadow) |->
           LET shadow == effects.dropShadow[1]
           IN Fragment("dropShadow", FALSE, OrZeroUnits(shadow.offsetX),
                       OrZeroUnits(shadow.offsetY), OrZeroUnits(shadow.blur),
                       IF TruthyUnits(shadow.spread) /\ ~isText
                         THEN <<shadow.spread.v>> ELSE <<>>,
                       OrHalfBlack(shadow.color), <<>>)]
      inner ==
        [i \in 1..Len(effects.innerShadow) |->
           LET shadow == effects.innerShadow[1]
           IN Fragment("innerShadow", TRUE, OrZeroUnits(shadow.offsetX),
                       OrZeroUnits(shadow.offsetY), OrZeroUnits(shadow.blur),
                       <<>>, OrHalfBlack(shadow.color), <<>>)]
      lit(glow) == glow.color # NoColorString /\ TruthyUnits(glow.size)
      outer ==
        IF effects.outerGlow # <<>> /\ lit(effects.outerGlow[1])
          THEN LET glow == effects.outerGlow[1]
               IN <<Fragment("outerGlow", FALSE, 0, 0, glow.size.v,
                             IF TruthyUnits(glow.spread) /\ ~isText
                               THEN <<glow.spread.v>> ELSE <<>>,
                             glow.color, <<>>)>>
          ELSE <<>>
      innerGlow ==
        IF effects.innerGlow # <<>> /\ lit(effects.innerGlow[1]) /\ ~isText
          THEN LET glow == effects.innerGlow[1]
               IN <<Fragment("innerGlow", TRUE, 0, 0, glow.size.v, <<>>,
                             glow.color, <<>>)>>
          ELSE <<>>
      bevel == [i \in 1..Len(effects.bevel) |-> effects.bevel[1].boxShadow]
      shadowParts == (IF isText THEN <<>> ELSE drop) \o inner
                       \o (IF isText THEN <<>> ELSE outer) \o innerGlow
                       \o bevel
      textShadowParts == IF isText THEN drop \o outer ELSE <<>>
  IN (IF shadowParts # <<>>
        THEN "boxShadow" :> SelectSeq(shadowParts, NonEmptyFragment)
        ELSE <<>>)
     @@ (IF textShadowParts # <<>>
           THEN "textShadow" :> SelectSeq(textShadowParts, NonEmptyFragment)
           ELSE <<>>)

\* the shadow and glow parts of applyEffectsToStyles in styleConverter.ts:
\* every shadow goes to boxShadow, the glows go to filter
styleConverterApplyEffects(effects, isText) ==
  LET drop ==
        [i \in 1..Len(effects.dropShadow) |->
           LET shadow == effects.dropShadow[1]
           IN Fragment("dropShadow", FALSE, OrZeroUnits(shadow.offsetX),
                       OrZeroUnits(shadow.offsetY), OrZeroUnits(shadow.blur),
                       IF TruthyUnits(shadow.spread)
                         THEN <<shadow.spread.v>> ELSE <<>>,
                       OrHalfBlack(shadow.color), <<>>)]
      inner ==
        [i \in 1..Len(effects.innerShadow) |->
           LET shadow == effects.innerShadow[1]
           IN Fragment("innerShadow", TRUE, OrZeroUnits(shadow.offsetX),
                       OrZeroUnits(shadow.offsetY), OrZeroUnits(shadow.blur),
                       <<>>, OrHalfBlack(shadow.color), <<>>)]
      bevel == [i \in 1..Len(effects.bevel) |-> effects.bevel[1].boxShadow]
      shadowParts == drop \o inner \o bevel
      lit(glow) == glow.color # NoColorString /\ TruthyUnits(glow.size)
      glowOf(entry, name) ==
        IF entry # <<>> /\ lit(entry[1])
          THEN <<Fragment(name, FALSE, 0, 0, entry[1].size.v, <<>>,
                          entry[1].color, <<>>)>>
          ELSE <<>>
      glowFilters == glowOf(effects.outerGlow, "outerGlow")
                       \o glowOf(effects.innerGlow, "innerGlow")
  IN (IF shadowParts # <<>>
        THEN "boxShadow" :> SelectSeq(shadowParts, NonEmptyFragment)
        ELSE <<>>)
     @@ (IF glowFilters # <<>> THEN "filter" :> glowFilters ELSE <<>>)

\* ------------------------------------------------- the effects alone
Enableds == {JUndef, JTrue, JFalse}
EffectColors == {NoColor, [r |-> QInt(255), g |-> QInt(0), b |-> QInt(0)]}
ShadowEffect(enabled, angle, choke, color) ==
  [enabled |-> enabled, distance |-> Units(4), angle |-> angle,
   size |-> Units(5), choke |-> choke, color |-> color,
   shadowColor |-> NoColor]
DropShadows(angles) ==
  {<<>>} \cup
  {<<ShadowEffect(e, a, k, c)>> :
     e \in Enableds, a \in angles, k \in {NoUnits, Units(3)}, c \in EffectColors}
InnerShadows ==
  {<<>>, <<ShadowEffect(JFalse, Units(0), NoUnits, NoColor)>>,
   <<ShadowEffect(JTrue, Units(0), NoUnits, NoColor)>>}
GlowEffect(enabled, size, color) ==
  [enabled |-> enabled, distance |-> NoUnits, angle |-> NoUnits,
   size |-> size, choke |-> Units(2), color |-> color, shadowColor |-> NoColor]
Red == [r |-> QInt(255), g |-> QInt(0), b |-> QInt(0)]
OuterGlows ==
  {<<>>, <<GlowEffect(JFalse, Units(6), Red)>>, <<GlowEffect(JUndef, Units(6), Red)>>,
   <<GlowEffect(JTrue, NoUnits, Red)>>, <<GlowEffect(JTrue, Units(6), NoColor)>>}
InnerGlows ==
  {<<>>, <<GlowEffect(JFalse, Units(7), Red)>>, <<GlowEffect(JTrue, Units(7), Red)>>}
\* for a bevel, color stands for highlightColor
Bevels ==
  {<<>>, <<GlowEffect(JFalse, Units(2), NoColor)>>,
   <<GlowEffect(JTrue, Units(2), NoColor)>>}
EffectsLayer(d, i, og, ig, bv) ==
  [effects |-> <<[dropShadow |-> d, innerShadow |-> i, outerGlow |-> og,
                  innerGlow |-> ig, bevel |-> bv]>>]
NoEffectsLayer == [effects |-> <<>>]

\* the older converter multiplies the distance by Math.cos and Math.sin
\* without rounding, which is exact for the angle 0 only
InitEffects ==
  /\ buffer = NullBuffer
  /\ options = [logging |-> JUndef, includeHidden |-> JUndef, units |-> JUndef]
  /\ pc = "idle"
  /\ Idle
  /\ \E text \in BOOLEAN :
       \/ \E op \in {"effects", "styleConverterEffects"} :
            fin = [op |-> op, layer |-> NoEffectsLayer, isTextLayer |-> text]
       \/ \E d \in DropShadows({NoUnits, Units(0), Units(90)}),
             i \in InnerShadows, og \in OuterGlows, ig \in InnerGlows,
             bv \in Bevels :
            fin = [op |-> "effects", layer |-> EffectsLayer(d, i, og, ig, bv),
                   isTextLayer |-> text]
       \/ \E d \in DropShadows({NoUnits, Units(0)}),
             i \in InnerShadows, og \in OuterGlows, ig \in InnerGlows,
             bv \in Bevels :
            fin = [op |-> "styleConverterEffects",
                   layer |-> EffectsLayer(d, i, og, ig, bv),
                   isTextLayer |-> text]
  /\ fout = NoOutput

ApplyEffects ==
  /\ fin.op = "effects"
  /\ ~fout.done
  /\ fout' = [done |-> TRUE,
              value |-> applyEffectsToStyles(convertLayerEffects(fin.layer),
                                             fin.isTextLayer)]
  /\ UNCHANGED <<callVars, fin>>

ApplyStyleConverterEffects ==
  /\ fin.op = "styleConverterEffects"
  /\ ~fout.done
  /\ fout' = [done |-> TRUE,
              value |-> styleConverterApplyEffects(
                          styleConverterLayerEffects(fin.layer),
                          fin.isTextLayer)]
  /\ UNCHANGED <<callVars, fin>>

NextEffects == ApplyEffects \/ ApplyStyleConverterEffects

SpecEffects == InitEffects /\ [][NextEffects]_vars

EffectsDone == fout.done /\ fin.op \in {"effects", "styleConverterEffects"}

\* the effect of the layer is there and not disabled
Enabled(name) ==
  /\ fin.layer.effects # <<>>
  /\ fin.layer.effects[1][name] # <<>>
  /\ fin.layer.effects[1][name][1].enabled # JFalse

\* an enabled glow that has a colour and a size
Glowing(name) ==
  /\ Enabled(name)
  /\ fin.layer.effects[1][name][1].color # NoColor
  /\ TruthyUnits(fin.layer.effects[1][name][1].size)

\* the parts of a shadow list of the record, <<>> when the key is not set
Parts(key) == IF key \in DOMAIN fout.value THEN fout.value[key] ELSE <<>>

\* the place of an effect in the order drop shadow, inner shadow, glow, bevel
Rank(effect) ==
  CASE effect = "dropShadow" -> 1
    [] effect = "innerShadow" -> 2
    [] effect \in {"outerGlow", "innerGlow"} -> 3
    [] effect = "bevel" -> 4
    [] OTHER -> 0

InOrder(parts) ==
  \A i \in 1..(Len(parts) - 1) : Rank(parts[i].effect) <= Rank(parts[i + 1].effect)

Lists(parts, effect) == \E i \in 1..Len(parts) : parts[i].effect = effect

\* C29: the box-shadow of a raster layer lists the parts of its enabled drop
\* shadow, inner shadow, glows and bevel in that order; the text-shadow of a
\* text layer lists its drop shadow, then its glow; a text layer's drop
\* shadow is in text-shadow only, without spread; an effect that is absent or
\* disabled gives no part; no part is empty.
C29_ShadowOrder ==
  EffectsDone =>
    LET box == Parts("boxShadow")
        text == Parts("textShadow")
    IN /\ InOrder(box) /\ InOrder(text)
       /\ \A i \in 1..Len(box) :
            box[i] # EmptyFragment /\ Enabled(box[i].effect)
       /\ \A i \in 1..Len(text) :
            /\ text[i] # EmptyFragment /\ Enabled(text[i].effect)
            /\ text[i].effect \in {"dropShadow", "outerGlow"}
       /\ ~fin.isTextLayer =>
            /\ text = <<>>
            /\ Enabled("dropShadow") => Lists(box, "dropShadow")
            /\ Enabled("innerShadow") => Lists(box, "innerShadow")
            /\ Glowing("outerGlow") => Lists(box, "outerGlow")
            /\ Glowing("innerGlow") => Lists(box, "innerGlow")
            /\ Enabled("bevel") => Lists(box, "bevel")
       /\ fin.isTextLayer =>
            /\ ~Lists(box, "dropShadow")
            /\ Enabled("dropShadow") => Lists(text, "dropShadow")
            /\ Glowing("outerGlow") => Lists(text, "outerGlow")
            /\ \A i \in 1..Len(text) :
                 text[i].effect = "dropShadow" => text[i].spread = <<>>

\* ------------------------------------------------ logging and the result
\* the warnings among the lines of a console
IsWarning(entry) == entry.level = "warn"
Warnings(lines) == SelectSeq(lines, IsWarning)

\* both calls on the buffer have settled
BothSettled == prev.called /\ Settled

\* C30: logging changes the console only: two calls on the same document
\* with the same includeHidden settle alike whatever their logging values
\* are, with the same texts and images or the same rejection and the same
\* warnings for the layers that were dropped; a call with logging false
\* prints nothing but warnings.
C30_LoggingOnlyPrints ==
  BothSettled =>
    /\ prev.options.includeHidden = mergedOptions.includeHidden =>
         /\ outcome = prev.outcome
         /\ Warnings(console) = Warnings(prev.console)
    /\ ~Truthy(mergedOptions.logging) => Warnings(console) = console
    /\ ~Truthy(prev.options.logging) => Warnings(prev.console) = prev.console

C30_Witness ==
  /\ BothSettled
  /\ pc = "resolved"
  /\ prev.options.logging = JTrue
  /\ mergedOptions.logging = JFalse
  /\ prev.options.includeHidden = mergedOptions.includeHidden
  /\ Len(psd.layers) = 2
  /\ psd.layers[1].malformed
  /\ Warned(psd.layers[1])
  /\ Len(outcome.result.texts) + Len(outcome.result.images) = 1
  /\ outcome = prev.outcome
  /\ Len(prev.console) > Len(console)

====
